---- MODULE Spec2Model ----
(***************************************************************************)
(* Caching + real-time broadcast coordination layer of the doughmination   *)
(* backend: the TTL cache in front of the PluralKit API (pluralkit.py),    *)
(* the websocket ConnectionManager and the request handlers that tie them  *)
(* together (main.py), and the member-tag store (subsystems.py).           *)
(*                                                                         *)
(* Every request is a coroutine on one event loop: it runs atomically from *)
(* one network await (remote call, websocket send) to the next.  An action *)
(* of this module is one such atomic segment.                              *)
(***************************************************************************)
EXTENDS Integers, Sequences, FiniteSets, TLC

\* ------------------------------------------------------------------ bounds
\* The clock runs from 0 to MaxTime.
MaxTime == 3
\* At most MaxStarts requests are started in one behaviour.
MaxStarts == 3

\* --------------------------------------------------------------- constants
\* CACHE_TTL = int(os.getenv("CACHE_TTL", 30)): configured here as 2 ticks.
CACHE_TTL == 2
\* MAX_FRONTERS is imported by main.py from pluralkit; configured here as 2.
MAX_FRONTERS == 2

Procs == {"r1", "r2"}
Conns == {"w1", "w2"}
Groups == {"all", "authenticated"}
Keys == {"system", "members", "members_raw", "fronters"}
MemberKeys == {"members", "members_raw"}

\* ------------------------------------------------------------ remote data
\* A PluralKit member object, reduced to the fields the backend reads or
\* writes.  A key the dict does not hold is the string "None".
RawMember(id, name) ==
    [id |-> id, name |-> name, display_name |-> "None",
     is_special |-> FALSE, original_name |-> "None"]

\* The member list of the remote system (GET /systems/@me/members).
RemoteMembers ==
    << RawMember("a", "Alice"), RawMember("b", "system"), RawMember("c", "Cleo") >>

RawOf(id) ==
    CHOOSE m \in {RemoteMembers[i] : i \in 1..Len(RemoteMembers)} : m.id = id

\* The body of GET /systems/@me/fronters when the front is the id list f.
RemoteFronters(f) == [members |-> [i \in 1..Len(f) |-> RawOf(f[i])]]

\* The body of GET /systems/@me/fronters when the front is the id list f and
\* the member list is list: the member objects of the front, in its order.
FrontersBody(f, list) ==
    [members |->
        [i \in 1..Len(f) |->
            list[CHOOSE j \in 1..Len(list) :
                    list[j].id = f[i] /\ \A h \in 1..(j - 1) : list[h].id # f[i]]]]

\* The body of GET /systems/@me.
RemoteSystem == [id |-> "sys"]

\* The id lists a caller may pass as "members".
SwitchInputs ==
    { <<>>, <<"a">>, <<"a", "b">>, <<"a", "b", "c">> }

\* Statuses the remote answers POST /systems/@me/switches with.
PostStatuses == {200, 204, 500}
\* The same, with a 2xx status other than 200 and 204, for set_front called
\* on its own.
ClientPostStatuses == {200, 201, 204, 500}

\* A 2xx status: the remote has registered the switch.
Is2xx(st) == st \in 200..299

\* The remote registers a switch: the new front is the posted member list.
RemoteApply_Merge(front, members) == front \o members
RemoteApply(front, members) == members

\* Whether the remote's answer to a POST has a body: 204 is "No Content".
HasContent(st) == st # 204
\* Statuses the remote answers a GET with.
GetStatuses == {200, 500}

\* --------------------------------------------------------------- variables
VARIABLES
    now,                 \* the clock time.time() reads
    cache,               \* the cache store: key -> [value, expiry]
    remoteFront,         \* the remote's current front (source of truth)
    remoteMembers,       \* the remote's current member list
    active_connections,  \* ConnectionManager.active_connections
    connState,           \* each websocket: "new", "open", "broken", "closed"
    lastMsg,             \* the last message sent to each websocket
    received,            \* the last text websocket_endpoint read from each
    wsAt,                \* where websocket_endpoint waits: "receive" or "send"
    pc,                  \* each request's position
    req,                 \* each request's locals
    started,             \* number of requests started so far
    member_tags,         \* the persisted member tag map (member_tags.json)
    tags_file,           \* whether member_tags.json exists
    mental_state,        \* the level in mental_state.json ("none": no file)
    member_status,       \* the persisted member status map: key -> text
    hist                 \* per key, the last cache write that was asked for

vars ==
    << now, cache, remoteFront, remoteMembers, active_connections, connState,
       lastMsg, received, wsAt, pc, req, started, member_tags, tags_file,
       mental_state, member_status, hist >>

\* ------------------------------------------------------------- cache store
\* A cached value or Python's None: [some, value].
Default(k) ==
    IF k \in MemberKeys THEN << >>
    ELSE IF k = "fronters" THEN [members |-> << >>]
    ELSE [id |-> ""]

None(k) == [some |-> FALSE, value |-> Default(k)]
Some(v) == [some |-> TRUE, value |-> v]

NoEntry(k) == [value |-> None(k), expiry |-> 0]

\* set_in_cache(key, value, ttl): ttl = 0 or value None invalidates the entry
\* (expiry 0); otherwise the entry expires at now + ttl.
set_in_cache(c, k, v, ttl) ==
    IF ttl = 0 \/ ~v.some
    THEN [c EXCEPT ![k] = NoEntry(k)]
    ELSE [c EXCEPT ![k] = [value |-> v, expiry |-> now + ttl]]

\* get_from_cache(key): the value while now < expiry, else None.
get_from_cache(c, k) ==
    IF now < c[k].expiry THEN c[k].value ELSE None(k)

\* Python truthiness of what get_from_cache returned: None, an empty list
\* and an empty dict are falsy.
Truthy(k, v) ==
    /\ v.some
    /\ (k \in MemberKeys => v.value # << >>)

\* ------------------------------------------------------ member processing
SPECIAL_DISPLAY_NAMES ==
    [n \in {"answer", "system", "sleeping"} |->
        CASE n = "answer" -> "Answer Machine"
          [] n = "system" -> "Unsure"
          [] OTHER -> "I am sleeping"]

ProcessMember_KeepDisplay(m) ==
    IF m.name \in DOMAIN SPECIAL_DISPLAY_NAMES
    THEN [m EXCEPT !.display_name = IF @ = "None"
                                    THEN SPECIAL_DISPLAY_NAMES[m.name] ELSE @,
                   !.is_special = TRUE,
                   !.original_name = m.name]
    ELSE m

\* One pass of the loop of get_members over a raw member.
ProcessMember(m) ==
    IF m.name \in DOMAIN SPECIAL_DISPLAY_NAMES
    THEN [m EXCEPT !.display_name = SPECIAL_DISPLAY_NAMES[m.name],
                   !.is_special = TRUE,
                   !.original_name = m.name]
    ELSE m

ProcessMembers(data) == [i \in 1..Len(data) |-> ProcessMember(data[i])]

\* The loop of get_fronters: each fronter is replaced by the first processed
\* member with its id, or kept when there is none.
ProcessFronters(data, all_members) ==
    [members |->
        [i \in 1..Len(data.members) |->
            LET hits == {j \in 1..Len(all_members) :
                            all_members[j].id = data.members[i].id}
            IN  IF hits = {} THEN data.members[i]
                ELSE all_members[CHOOSE j \in hits : \A h \in hits : j <= h]]]

FrontIds(data) == [i \in 1..Len(data.members) |-> data.members[i].id]

\* ------------------------------------------------------------ request state
NoResp == [status |-> 0, front |-> << >>, members |-> << >>]
NoMsg == [type |-> "none", members |-> << >>, info |-> "", related |-> << >>]

\* Calls of the pluralkit functions and of the ConnectionManager methods
\* themselves, as opposed to HTTP handlers.
DirectKinds ==
    {"set_front", "get_members", "get_fronters", "broadcast",
     "disconnect", "interested", "personal", "enrich", "filter", "group"}
\* Handlers whose "except Exception" also catches the HTTPException they raise.
CatchAllKinds ==
    {"switch", "multi_switch", "cofront", "fronters", "member_detail",
     "mental_state", "admin_refresh", "clear_status", "system_info"}
SetFrontKinds == {"switch", "switch_single", "multi_switch", "cofront", "set_front"}

NewReq(kind) ==
    [kind |-> kind, ids |-> << >>, islist |-> TRUE, admin |-> FALSE,
     flag |-> FALSE, ident |-> "", tags |-> << >>, stage |-> "top",
     resp |-> NoResp, posted |-> << >>, prev |-> << >>,
     data |-> Default("fronters"), mlist |-> << >>, sys |-> Default("system"),
     msg |-> NoMsg, group |-> "all", bnext |-> "finish",
     snapshot |-> {}, remaining |-> {}, failed |-> {}, delivered |-> {},
     status |-> 0, raised |-> FALSE, log |-> << >>, solo |-> TRUE,
     stale |-> FALSE, fresh |-> TRUE, last |-> FALSE, rstatus |-> 0,
     ret |-> "", quiet |-> FALSE, was |-> {}, left |-> {}, same |-> TRUE,
     input |-> << >>, grouped |-> [untagged |-> << >>], late |-> {},
     exc |-> FALSE]

Active(q) == pc[q] \notin {"idle", "done"}
InFlightWrite(q) == pc[q] \in {"post_sent", "post_resp"}

\* The state one atomic segment of request p works on.
Ctx(p) ==
    [p |-> p, pc |-> pc[p], r |-> req[p], cache |-> cache,
     ac |-> active_connections, hist |-> hist, tags |-> member_tags,
     file |-> tags_file,
     mental |-> mental_state, statuses |-> member_status]

\* The last cache write asked for on key k: "set" or "inv", the value and
\* the expiry time asked for, and whether the write replaced an entry a
\* reader could see.  For "system", whose dict system_info writes into, also
\* the request whose dict the write stored ("": a caller of the store).
NoHist(k) ==
    [op |-> "none", exp |-> 0, val |-> None(k), vis |-> FALSE, by |-> ""]

Note(ctx, k, op, v, ttl) ==
    [ctx EXCEPT !.hist[k] =
        [op |-> op, exp |-> IF op = "set" THEN now + ttl ELSE 0, val |-> v,
         vis |-> Truthy(k, get_from_cache(ctx.cache, k)),
         by |-> IF k = "system" THEN ctx.p ELSE ""]]

Log(ctx, e) == [ctx EXCEPT !.r.log = Append(@, e)]

\* --------------------------------------------------------- request outcomes
\* What is raised inside a try block: HTTPException(code) is written as its
\* status code, a ValueError as ValueError, any other exception as 0.
ValueError == 1

\* The status a handler answers with when HTTPException(code), a ValueError
\* or another exception is raised inside its try block.  create_custom_cofront
\* has "except ValueError" (400) ahead of its "except Exception" (500).
HandlerStatus(kind, code) ==
    IF kind = "cofront" /\ code = ValueError THEN 400
    ELSE IF kind \in CatchAllKinds THEN 500
    ELSE IF code \notin {0, ValueError} THEN code
    ELSE 500

\* The request ends with the given status; the locals that nothing reads
\* after the end are dropped.
Done(ctx, status) ==
    [ctx EXCEPT !.pc = "done", !.r.status = status, !.r.resp = NoResp,
                !.r.stage = "top", !.r.bnext = "finish", !.r.prev = << >>,
                !.r.exc = FALSE]

\* The call returns normally: a handler answers 200, a function just returns.
ReturnOk(ctx) == Done(ctx, IF ctx.r.kind \in DirectKinds THEN 0 ELSE 200)

Raise(ctx, code) ==
    IF ctx.r.kind \in DirectKinds
    THEN Done([ctx EXCEPT !.r.raised = TRUE], 0)
    ELSE Done([ctx EXCEPT !.r.raised = TRUE], HandlerStatus(ctx.r.kind, code))

\* ------------------------------------------------------ connection manager
\* ConnectionManager.disconnect: discard from the group, then from every group.
ManagerDisconnect_GroupOnly(ac, ws, group) == [ac EXCEPT ![group] = @ \ {ws}]
ManagerDisconnect_IfMember(ac, ws, group) ==
    IF ws \in ac[group] THEN [g \in Groups |-> ac[g] \ {ws}] ELSE ac
ManagerDisconnect(ac, ws, group) == [g \in Groups |-> ac[g] \ {ws}]

DisconnectEach_None(ac, disconnected, group) == ac

RECURSIVE DisconnectEach(_, _, _)
\* The clean-up loop at the end of ConnectionManager.broadcast.
DisconnectEach(ac, disconnected, group) ==
    IF disconnected = {} THEN ac
    ELSE LET conn == CHOOSE w \in disconnected : TRUE
         IN  DisconnectEach(ManagerDisconnect(ac, conn, group),
                            disconnected \ {conn}, group)

\* manager.broadcast on entry: the copy of the group is taken; with an empty
\* copy the loops are skipped and the call returns without awaiting.
EnterBroadcast(ctx, msg, group, bnext) ==
    LET c1 == Log([ctx EXCEPT !.r.msg = msg, !.r.group = group,
                              !.r.bnext = bnext,
                              !.r.snapshot = ctx.ac[group],
                              !.r.remaining = ctx.ac[group],
                              !.r.failed = {}, !.r.delivered = {}],
                  "bcast")
    IN  [c1 EXCEPT !.pc = IF ctx.ac[group] = {} THEN "bc_end" ELSE "bc_send"]

\* The envelope of broadcast_cofront_update.
CofrontMsg(r) ==
    [type |-> "cofront_update", members |-> << >>, info |-> "created",
     related |-> << >>]

AfterBroadcast_Propagate(ctx) ==
    IF ctx.r.failed # {} THEN Raise(ctx, 0)
    ELSE IF ctx.r.bnext = "cofront_bc"
    THEN LET c1 == EnterBroadcast(ctx, CofrontMsg(ctx.r), "all", "finish")
         IN  IF c1.pc = "bc_end" THEN ReturnOk(c1) ELSE c1
    ELSE ReturnOk(ctx)

\* What the handler does once a broadcast has returned.
AfterBroadcast(ctx) ==
    IF ctx.r.bnext = "cofront_bc"
    THEN LET c1 == EnterBroadcast(ctx, CofrontMsg(ctx.r), "all", "finish")
         IN  IF c1.pc = "bc_end" THEN ReturnOk(c1) ELSE c1
    ELSE ReturnOk(ctx)

BroadcastUpdate_Authenticated(ctx, msg, bnext) ==
    LET c1 == EnterBroadcast(ctx, msg, "authenticated", bnext)
    IN  IF c1.pc = "bc_end" THEN AfterBroadcast(c1) ELSE c1

\* broadcast_frontend_update -> manager.broadcast_json -> manager.broadcast.
BroadcastUpdate(ctx, msg, bnext) ==
    LET c1 == EnterBroadcast(ctx, msg, "all", bnext)
    IN  IF c1.pc = "bc_end" THEN AfterBroadcast(c1) ELSE c1

\* --------------------------------------------------------- upstream client
\* The cache writes of pluralkit.py and main.py, one operator per call site.
InvalidateFronters_Skipped(c) == c
InvalidateFronters_All(c) == [k \in Keys |-> NoEntry(k)]
InvalidateFronters(c) == set_in_cache(c, "fronters", None("fronters"), 0)
FillSystem(c, data) == set_in_cache(c, "system", Some(data), CACHE_TTL)
FillMembersRaw(c, data) == set_in_cache(c, "members_raw", Some(data), CACHE_TTL)
FillMembers(c, processed) == set_in_cache(c, "members", Some(processed), CACHE_TTL)
FillFronters_LongTtl(c, data) ==
    set_in_cache(c, "fronters", Some(data), CACHE_TTL + 1)
FillFronters(c, data) == set_in_cache(c, "fronters", Some(data), CACHE_TTL)
InvalidateMembersRaw(c) == set_in_cache(c, "members_raw", None("members_raw"), 0)

\* The body of an "async with httpx.AsyncClient() as client" block has ended,
\* by a return or by running off its end: the request waits in
\* client.__aexit__ at position "at".
ExitBlock(ctx, at) == [ctx EXCEPT !.pc = at]

\* The body of the block has ended by an exception, which is on its way out
\* while the request waits in client.__aexit__.
FailBlock(ctx, at) == [Log(ctx, "err") EXCEPT !.pc = at, !.r.exc = TRUE]

\* get_fronters has returned: the handler broadcasts the result, a plain read
\* returns it.
ReturnFronters(ctx, data) ==
    LET c1 == [ctx EXCEPT !.r.data = data]
    IN  IF ctx.r.kind \in {"fronters", "get_fronters"}
        THEN ReturnOk(c1)
        ELSE BroadcastUpdate(c1,
                [type |-> "fronting_update", members |-> data.members, info |-> "",
                 related |-> << >>],
                IF ctx.r.kind = "cofront" THEN "cofront_bc" ELSE "finish")

\* The "members" field of the POST body: json={"members": member_ids}.
SwitchPayload_DropLast(member_ids) == SubSeq(member_ids, 1, Len(member_ids) - 1)
SwitchPayload(member_ids) == member_ids

\* set_front up to its await: the invalidation, then the POST is issued.
EnterSetFront(ctx, member_ids) ==
    LET c1 == Note(ctx, "fronters", "inv", None("fronters"), 0)
        c2 == Log([c1 EXCEPT !.cache = InvalidateFronters(ctx.cache)], "inv")
    IN  Log([c2 EXCEPT !.pc = "post_sent",
                       !.r.posted = SwitchPayload(member_ids),
                       !.r.prev = remoteFront],
            "post")

AfterCofrontCreated_Always(ctx) == EnterSetFront(ctx, ctx.r.ids)

\* create_dynamic_cofront has composed the cofront; the rest of
\* create_custom_cofront up to its next await.
AfterCofrontCreated(ctx) ==
    IF ctx.r.flag
    THEN EnterSetFront(ctx, ctx.r.ids)
    ELSE BroadcastUpdate(ctx, CofrontMsg(ctx.r), "finish")

\* str.lower() on the strings in use: those with an upper-case letter are
\* listed with their lower-case form, every other one is its own.
Lower(str) ==
    LET LowerCased ==
        [s \in {"Alice", "ALICE", "Cleo", "CLEO", "Bob", "Host", "Sys", "Al",
                "None", "Unsure", "Answer Machine", "I am sleeping"} |->
            CASE s \in {"Alice", "ALICE"} -> "alice"
              [] s \in {"Cleo", "CLEO"} -> "cleo"
              [] s = "Bob" -> "bob"
              [] s = "Host" -> "host"
              [] s = "Sys" -> "sys"
              [] s = "Al" -> "al"
              [] s = "None" -> "none"
              [] s = "Unsure" -> "unsure"
              [] s = "Answer Machine" -> "answer machine"
              [] OTHER -> "i am sleeping"]
    IN  IF str \in DOMAIN LowerCased THEN LowerCased[str] ELSE str

\* The loop of member_detail: the first member whose id is member_id or whose
\* name is member_id up to case is returned; with none, HTTPException(404) is
\* raised inside the try block.
FindMember(ctx, members, member_id) ==
    LET hits == {i \in 1..Len(members) :
                    \/ members[i].id = member_id
                    \/ Lower(members[i].name) = Lower(member_id)}
    IN  IF hits = {} THEN Raise(Log(ctx, "not_found"), 404)
        ELSE ReturnOk([ctx EXCEPT !.r.mlist =
                          << members[CHOOSE i \in hits : \A h \in hits : i <= h] >>])

\* get_members has its result.
ReturnMembers(ctx, processed) ==
    LET c1 == [ctx EXCEPT !.r.mlist = processed]
    IN  CASE ctx.r.stage = "gf" ->
               LET data == ProcessFronters(ctx.r.data, processed)
                   c2 == Note(c1, "fronters", "set", Some(data), CACHE_TTL)
               IN  ExitBlock([c2 EXCEPT !.cache = FillFronters(c1.cache, data),
                                        !.r.data = data],
                             "gf_exit")
          [] ctx.r.stage = "pre" ->
               IF ctx.r.kind = "cofront" THEN AfterCofrontCreated(c1)
               ELSE EnterSetFront(c1, ctx.r.ids)
          [] ctx.r.stage = "detail" ->
               FindMember(c1, processed, ctx.r.ident)
          [] OTHER ->
               ReturnOk(c1)

\* The processing loop of get_members and its cache write.
ProcessAndReturn(ctx, raw) ==
    LET processed == ProcessMembers(raw)
        c1 == Note(ctx, "members", "set", Some(processed), CACHE_TTL)
    IN  ReturnMembers([c1 EXCEPT !.cache = FillMembers(ctx.cache, processed)],
                      processed)

\* get_members up to its await.
EnterGetMembers(ctx, stage) ==
    LET c1 == [ctx EXCEPT !.r.stage = stage]
        cached == get_from_cache(ctx.cache, "members")
        cached_raw == get_from_cache(ctx.cache, "members_raw")
    IN  IF Truthy("members", cached) THEN ReturnMembers(c1, cached.value)
        ELSE IF Truthy("members_raw", cached_raw)
             THEN ProcessAndReturn(c1, cached_raw.value)
             ELSE [c1 EXCEPT !.pc = "gm_sent"]

\* get_members from the remote's answer to the end of its block: the raw list
\* is stored, or raise_for_status raises.
RecvMembers(ctx) ==
    IF ctx.r.resp.status # 200 THEN FailBlock(ctx, "gm_exit")
    ELSE LET cached_raw == ctx.r.resp.members
             c1 == Note(ctx, "members_raw", "set", Some(cached_raw), CACHE_TTL)
         IN  ExitBlock(
                 [c1 EXCEPT !.cache = FillMembersRaw(ctx.cache, cached_raw)],
                 "gm_exit")

\* get_members once its block is left: the list is processed and stored; an
\* exception goes to the caller, which for get_fronters is inside a block of
\* its own.
LeaveMembers(ctx) ==
    IF ctx.r.exc
    THEN IF ctx.r.stage = "gf" THEN ExitBlock(ctx, "gf_exit") ELSE Raise(ctx, 0)
    ELSE ProcessAndReturn(ctx, ctx.r.resp.members)

\* Whether a cache hit of get_fronters in request p hands out the front as
\* it was before a write that some other request has in flight.
StaleHit(p, data) ==
    \E q \in Procs \ {p} :
        /\ InFlightWrite(q)
        /\ req[q].prev # req[q].posted
        /\ FrontIds(data) = req[q].prev

\* get_fronters up to its await.
EnterGetFronters(ctx) ==
    LET cached == get_from_cache(ctx.cache, "fronters")
    IN  IF Truthy("fronters", cached)
        THEN ReturnFronters(
                 Log([ctx EXCEPT !.r.stale = StaleHit(ctx.p, cached.value)], "hit"),
                 cached.value)
        ELSE Log([ctx EXCEPT !.pc = "gf_sent"], "get")

\* get_fronters from the remote's answer on, inside its block: up to the
\* await of get_members or, with the members cached, to the end of the block.
RecvFronters(ctx) ==
    IF ctx.r.resp.status # 200 THEN FailBlock(ctx, "gf_exit")
    ELSE EnterGetMembers(
             [ctx EXCEPT !.r.data = [members |-> ctx.r.resp.members]], "gf")

\* get_fronters once its block is left.
LeaveFronters(ctx) ==
    IF ctx.r.exc THEN Raise(ctx, 0) ELSE ReturnFronters(ctx, ctx.r.data)

RecvSwitch_Retry(ctx) ==
    LET st == ctx.r.resp.status
    IN  IF st \notin {200, 204} THEN [ctx EXCEPT !.pc = "post_sent"]
        ELSE ExitBlock(Log(ctx, "post_ok"), "post_exit")

RecvSwitch_IgnoreStatus(ctx) == ExitBlock(Log(ctx, "post_ok"), "post_exit")

\* set_front from the remote's answer to the end of its block: the status is
\* checked and the value to return is computed.  For set_front called on its
\* own the remote status and the returned value are kept.
RecvSwitch(ctx) ==
    LET st == ctx.r.resp.status
        c0 == IF ctx.r.kind = "set_front" THEN [ctx EXCEPT !.r.rstatus = st]
              ELSE ctx
    IN  IF st \notin {200, 204} THEN FailBlock(c0, "post_exit")
        ELSE LET c1 == Log(c0, "post_ok")
             IN  ExitBlock(
                     IF ctx.r.kind = "set_front"
                     THEN [c1 EXCEPT !.r.ret =
                              IF HasContent(st) THEN "json" ELSE "None"]
                     ELSE c1,
                     "post_exit")

\* set_front once its block is left, and what its caller does next.  A
\* handler does not look at what set_front returned.
LeaveSwitch(ctx) ==
    IF ctx.r.exc THEN Raise(ctx, 0)
    ELSE IF ctx.r.kind = "set_front" THEN ReturnOk(ctx)
    ELSE EnterGetFronters(ctx)

\* Whether the value a reader got from the cache under k is the one last set
\* there, read before the expiry time that set asked for.
Unexpired(ctx, k, cached) ==
    /\ ctx.hist[k].op = "set"
    /\ now < ctx.hist[k].exp
    /\ cached = ctx.hist[k].val

\* system_info once get_system has returned system_data: the level of
\* mental_state.json, or "safe" when there is no file, is written into
\* system_data, which is returned.  system_data is the dict get_system took
\* from the store or handed to it, so while the store still holds that dict
\* (stored) the entry under "system" carries the write.
AddMentalState(ctx, stored) ==
    LET level == IF ctx.mental = "none" THEN "safe" ELSE ctx.mental
        system_data == [id |-> ctx.r.sys.id, mental_state |-> level]
        c1 == [ctx EXCEPT !.r.sys = system_data]
    IN  ReturnOk(IF stored
                 THEN [c1 EXCEPT !.cache["system"].value = Some(system_data)]
                 ELSE c1)

\* get_system up to its await; on a hit system_info goes on with the dict the
\* store holds.
EnterGetSystem(ctx) ==
    LET cached == get_from_cache(ctx.cache, "system")
    IN  IF Truthy("system", cached)
        THEN AddMentalState(
                 Log([ctx EXCEPT !.r.sys = cached.value,
                                 !.r.fresh = Unexpired(ctx, "system", cached)],
                     "hit"),
                 TRUE)
        ELSE Log([ctx EXCEPT !.pc = "gs_sent"], "get")

\* get_system from the remote's answer to the end of its block.
RecvSystem(ctx) ==
    IF ctx.r.resp.status # 200 THEN FailBlock(ctx, "gs_exit")
    ELSE LET c1 == Note(ctx, "system", "set", Some(RemoteSystem), CACHE_TTL)
         IN  ExitBlock([c1 EXCEPT !.cache = FillSystem(ctx.cache, RemoteSystem),
                                  !.r.sys = RemoteSystem],
                       "gs_exit")

\* get_system once its block is left: it returns the dict it stored, which
\* the store still holds unless "system" has been written since.
LeaveSystem(ctx) ==
    IF ctx.r.exc THEN Raise(ctx, 0)
    ELSE AddMentalState(ctx, /\ ctx.hist["system"].op = "set"
                             /\ ctx.hist["system"].by = ctx.p)

\* ------------------------------------------------------------------ actions
Apply(p, out) ==
    /\ pc' = [pc EXCEPT ![p] = out.pc]
    /\ req' = [req EXCEPT ![p] = out.r]
    /\ cache' = out.cache
    /\ active_connections' = out.ac
    /\ hist' = out.hist
    /\ member_tags' = out.tags
    /\ tags_file' = out.file
    /\ mental_state' = out.mental
    /\ member_status' = out.statuses

\* A new request starts in p; every request running at that moment, and the
\* new one if any is running, is marked as not running alone; when the new
\* request sets the front, no earlier read is marked quiet any more.
ApplyStart(p, out) ==
    /\ pc' = [pc EXCEPT ![p] = out.pc]
    /\ req' = [q \in Procs |->
                 IF q = p THEN out.r
                 ELSE [req[q] EXCEPT
                          !.solo = @ /\ ~Active(q),
                          !.quiet = @ /\ out.r.kind \notin SetFrontKinds]]
    /\ cache' = out.cache
    /\ active_connections' = out.ac
    /\ hist' = out.hist
    /\ member_tags' = out.tags
    /\ tags_file' = out.file
    /\ mental_state' = out.mental
    /\ member_status' = out.statuses
    /\ started' = started + 1

CanStart(p) == pc[p] \in {"idle", "done"} /\ started < MaxStarts

\* A read of the front is quiet when it starts while no set-front request is
\* running and the last fill of "fronters", if any, is at least CACHE_TTL old.
QuietStart(p, kind) ==
    /\ kind \in {"fronters", "get_fronters"}
    /\ \A q \in Procs \ {p} : ~(Active(q) /\ req[q].kind \in SetFrontKinds)
    /\ hist["fronters"].op = "set" => now >= hist["fronters"].exp

Fresh(p, kind) ==
    [Ctx(p) EXCEPT !.pc = "run",
                   !.r = [NewReq(kind) EXCEPT
                             !.solo = \A q \in Procs \ {p} : ~Active(q),
                             !.quiet = QuietStart(p, kind)]]

\* What a caller may send as the "members" / "member_ids" field.
SwitchBodies ==
    [islist : {TRUE}, ids : SwitchInputs] \cup {[islist |-> FALSE, ids |-> << >>]}

SwitchFront_RejectEmpty(p, body) ==
    /\ CanStart(p)
    /\ LET c0 == [Fresh(p, "switch") EXCEPT !.r.ids = body.ids,
                                            !.r.islist = body.islist]
       IN  ApplyStart(p,
               IF ~body.islist \/ body.ids = << >> THEN Raise(c0, 400)
               ELSE IF Len(body.ids) > MAX_FRONTERS THEN Raise(c0, 400)
               ELSE EnterSetFront(c0, body.ids))
    /\ UNCHANGED << now, remoteFront, remoteMembers, connState, received, wsAt, lastMsg >>

\* POST /api/switch
SwitchFront(p, body) ==
    /\ CanStart(p)
    /\ LET c0 == [Fresh(p, "switch") EXCEPT !.r.ids = body.ids,
                                            !.r.islist = body.islist]
       IN  ApplyStart(p,
               IF ~body.islist THEN Raise(c0, 400)
               ELSE IF Len(body.ids) > MAX_FRONTERS THEN Raise(c0, 400)
               ELSE EnterSetFront(c0, body.ids))
    /\ UNCHANGED << now, remoteFront, remoteMembers, connState, received, wsAt, lastMsg >>

\* POST /api/switch_front; member_id "" stands for a missing or empty id.
SwitchSingleFront(p, member_id) ==
    /\ CanStart(p)
    /\ LET c0 == [Fresh(p, "switch_single") EXCEPT
                     !.r.ids = IF member_id = "" THEN << >> ELSE << member_id >>,
                     !.r.ident = member_id]
       IN  ApplyStart(p,
               IF member_id = "" THEN Raise(c0, 400)
               ELSE EnterSetFront(c0, << member_id >>))
    /\ UNCHANGED << now, remoteFront, remoteMembers, connState, received, wsAt, lastMsg >>

SwitchMultipleFronters_NoLimit(p, body) ==
    /\ CanStart(p)
    /\ LET c0 == [Fresh(p, "multi_switch") EXCEPT !.r.ids = body.ids,
                                                  !.r.islist = body.islist]
       IN  ApplyStart(p,
               IF ~body.islist THEN Raise(c0, 400)
               ELSE EnterGetMembers(c0, "pre"))
    /\ UNCHANGED << now, remoteFront, remoteMembers, connState, received, wsAt, lastMsg >>

\* POST /api/multi_switch
SwitchMultipleFronters(p, body) ==
    /\ CanStart(p)
    /\ LET c0 == [Fresh(p, "multi_switch") EXCEPT !.r.ids = body.ids,
                                                  !.r.islist = body.islist]
       IN  ApplyStart(p,
               IF ~body.islist THEN Raise(c0, 400)
               ELSE IF Len(body.ids) > MAX_FRONTERS THEN Raise(c0, 400)
               ELSE EnterGetMembers(c0, "pre"))
    /\ UNCHANGED << now, remoteFront, remoteMembers, connState, received, wsAt, lastMsg >>

\* The ways a call of create_dynamic_cofront can go, as seen by its caller.
CofrontOutcomes == {"composed", "members", "ValueError", "Exception"}

\* pluralkit.create_dynamic_cofront(member_ids, name): composes the grouped
\* entry from existing members and does not set the front.  It returns the
\* entry without suspending ("composed"), reads the member list through
\* get_members first ("members"), or raises: ValueError, which the caller
\* answers with 400, or another exception, answered with 500.
create_dynamic_cofront(ctx, outcome) ==
    CASE outcome = "ValueError" -> Raise(ctx, ValueError)
      [] outcome = "Exception"  -> Raise(ctx, 0)
      [] outcome = "members"    -> EnterGetMembers(ctx, "pre")
      [] OTHER                  -> AfterCofrontCreated(ctx)

\* POST /api/dynamic_cofront
CreateCustomCofront(p, member_ids, set_as_current) ==
    /\ CanStart(p)
    /\ \E outcome \in CofrontOutcomes :
         LET c0 == [Fresh(p, "cofront") EXCEPT !.r.ids = member_ids,
                                               !.r.flag = set_as_current]
         IN  ApplyStart(p,
                 IF member_ids = << >> \/ Len(member_ids) < 2 THEN Raise(c0, 400)
                 ELSE IF Len(member_ids) > MAX_FRONTERS THEN Raise(c0, 400)
                 ELSE create_dynamic_cofront(c0, outcome))
    /\ UNCHANGED << now, remoteFront, remoteMembers, connState, received, wsAt, lastMsg >>

\* GET /api/fronters
Fronters(p) ==
    /\ CanStart(p)
    /\ ApplyStart(p, EnterGetFronters(Fresh(p, "fronters")))
    /\ UNCHANGED << now, remoteFront, remoteMembers, connState, received, wsAt, lastMsg >>

\* pluralkit.set_front(member_ids) called on its own.
CallSetFront(p, member_ids) ==
    /\ CanStart(p)
    /\ ApplyStart(p, EnterSetFront(
                        [Fresh(p, "set_front") EXCEPT !.r.ids = member_ids],
                        member_ids))
    /\ UNCHANGED << now, remoteFront, remoteMembers, connState, received, wsAt, lastMsg >>

\* GET /api/system
SystemInfo(p) ==
    /\ CanStart(p)
    /\ ApplyStart(p, EnterGetSystem(Fresh(p, "system_info")))
    /\ UNCHANGED << now, remoteFront, remoteMembers, connState, received, wsAt, lastMsg >>

\* pluralkit.get_fronters() called on its own.
CallGetFronters(p) ==
    /\ CanStart(p)
    /\ ApplyStart(p, EnterGetFronters(Fresh(p, "get_fronters")))
    /\ UNCHANGED << now, remoteFront, remoteMembers, connState, received, wsAt, lastMsg >>

\* pluralkit.get_members() called on its own.
CallGetMembers(p) ==
    /\ CanStart(p)
    /\ ApplyStart(p, EnterGetMembers(Fresh(p, "get_members"), "top"))
    /\ UNCHANGED << now, remoteFront, remoteMembers, connState, received, wsAt, lastMsg >>

\* The remote handles a POST /systems/@me/switches and answers with status st:
\* a 2xx answer means the switch was registered.
RemoteSwitch(p, st) ==
    /\ pc[p] = "post_sent"
    /\ remoteFront' = IF Is2xx(st) THEN RemoteApply(remoteFront, req[p].posted)
                      ELSE remoteFront
    /\ req' = [q \in Procs |->
                 IF q = p
                 THEN [req[p] EXCEPT !.resp = [status |-> st, front |-> << >>,
                                               members |-> << >>],
                                     !.last = Is2xx(st)]
                 ELSE IF Is2xx(st) THEN [req[q] EXCEPT !.last = FALSE]
                 ELSE req[q]]
    /\ pc' = [pc EXCEPT ![p] = "post_resp"]
    /\ UNCHANGED << now, remoteMembers, cache, active_connections, connState, received, wsAt, lastMsg,
                    started, member_tags, tags_file, mental_state, member_status, hist >>

\* The remote handles a GET and answers with status st.
RemoteGet(p, st) ==
    /\ pc[p] \in {"gf_sent", "gm_sent", "gs_sent"}
    /\ req' = [req EXCEPT ![p].resp =
                 [status |-> st,
                  front |-> IF pc[p] = "gf_sent" /\ st = 200
                            THEN remoteFront ELSE << >>,
                  members |-> IF st # 200 THEN << >>
                              ELSE IF pc[p] = "gf_sent"
                              THEN FrontersBody(remoteFront, remoteMembers).members
                              ELSE IF pc[p] = "gm_sent" THEN remoteMembers
                              ELSE << >>]]
    /\ pc' = [pc EXCEPT ![p] =
                 CASE pc[p] = "gf_sent" -> "gf_resp"
                   [] pc[p] = "gm_sent" -> "gm_resp"
                   [] OTHER -> "gs_resp"]
    /\ UNCHANGED << now, cache, remoteFront, remoteMembers, active_connections, connState, received, wsAt,
                    lastMsg, started, member_tags, tags_file, mental_state, member_status, hist >>

\* Request q has sent a remote call that has not been answered.
Waiting(q) == pc[q] \in {"post_sent", "gf_sent", "gm_sent", "gs_sent"}

Receive_Serial(p) ==
    /\ pc[p] \in {"post_resp", "gf_resp", "gm_resp", "gs_resp"}
    /\ \A q \in Procs \ {p} : ~Waiting(q)
    /\ Apply(p, CASE pc[p] = "post_resp" -> RecvSwitch(Ctx(p))
                  [] pc[p] = "gf_resp" -> RecvFronters(Ctx(p))
                  [] pc[p] = "gm_resp" -> RecvMembers(Ctx(p))
                  [] OTHER -> RecvSystem(Ctx(p)))
    /\ UNCHANGED << now, remoteFront, remoteMembers, connState, received, wsAt, lastMsg, started >>

\* The awaited remote call of request p returns; p runs to its next await,
\* which is at the latest the one that leaves the "async with" block.
Receive(p) ==
    /\ pc[p] \in {"post_resp", "gf_resp", "gm_resp", "gs_resp"}
    /\ Apply(p, CASE pc[p] = "post_resp" -> RecvSwitch(Ctx(p))
                  [] pc[p] = "gf_resp" -> RecvFronters(Ctx(p))
                  [] pc[p] = "gm_resp" -> RecvMembers(Ctx(p))
                  [] OTHER -> RecvSystem(Ctx(p)))
    /\ UNCHANGED << now, remoteFront, remoteMembers, connState, received, wsAt, lastMsg, started >>

\* client.__aexit__ of request p returns: p leaves the "async with" block and
\* runs to its next await.
Leave(p) ==
    /\ pc[p] \in {"post_exit", "gf_exit", "gm_exit", "gs_exit"}
    /\ Apply(p, CASE pc[p] = "post_exit" -> LeaveSwitch(Ctx(p))
                  [] pc[p] = "gf_exit" -> LeaveFronters(Ctx(p))
                  [] pc[p] = "gm_exit" -> LeaveMembers(Ctx(p))
                  [] OTHER -> LeaveSystem(Ctx(p)))
    /\ UNCHANGED << now, remoteFront, remoteMembers, connState, received, wsAt, lastMsg, started >>

\* The connections that are in the group of p's broadcast at one of its sends
\* without being in its copy; kept for manager.broadcast called on its own.
LateJoiners(p) ==
    IF req[p].kind = "broadcast"
    THEN req[p].late \cup (active_connections[req[p].group] \ req[p].snapshot)
    ELSE req[p].late

BroadcastSend_Live(p, conn) ==
    /\ pc[p] = "bc_send"
    /\ conn \in (req[p].remaining \cup active_connections[req[p].group])
                    \ (req[p].delivered \cup req[p].failed)
    /\ LET ok == connState[conn] = "open"
           r1 == [req[p] EXCEPT
                     !.remaining = @ \ {conn},
                     !.delivered = IF ok THEN @ \cup {conn} ELSE @,
                     !.failed = IF ok THEN @ ELSE @ \cup {conn},
                     !.late = LateJoiners(p)]
           c1 == [Ctx(p) EXCEPT !.r = r1]
       IN  /\ lastMsg' = IF ok THEN [lastMsg EXCEPT ![conn] = req[p].msg]
                         ELSE lastMsg
           /\ Apply(p,
                IF r1.remaining # {} THEN c1
                ELSE AfterBroadcast(
                        [c1 EXCEPT !.ac = DisconnectEach(c1.ac, r1.failed,
                                                         r1.group)]))
    /\ UNCHANGED << now, remoteFront, remoteMembers, connState, received, wsAt, started >>

\* One pass of the loop of ConnectionManager.broadcast: send_text to one
\* connection of the copy; after the last one, the clean-up loop runs and the
\* handler goes on.
BroadcastSend(p, conn) ==
    /\ pc[p] = "bc_send"
    /\ conn \in req[p].remaining
    /\ LET ok == connState[conn] = "open"
           r1 == [req[p] EXCEPT
                     !.remaining = @ \ {conn},
                     !.delivered = IF ok THEN @ \cup {conn} ELSE @,
                     !.failed = IF ok THEN @ ELSE @ \cup {conn},
                     !.late = LateJoiners(p)]
           c1 == [Ctx(p) EXCEPT !.r = r1]
       IN  /\ lastMsg' = IF ok THEN [lastMsg EXCEPT ![conn] = req[p].msg]
                         ELSE lastMsg
           /\ Apply(p,
                IF r1.remaining # {} THEN c1
                ELSE AfterBroadcast(
                        [c1 EXCEPT !.ac = DisconnectEach(c1.ac, r1.failed,
                                                         r1.group)]))
    /\ UNCHANGED << now, remoteFront, remoteMembers, connState, received, wsAt, started >>

\* time.time() advances.
Tick ==
    /\ now < MaxTime
    /\ now' = now + 1
    /\ UNCHANGED << cache, remoteFront, remoteMembers, active_connections, connState, received, wsAt, lastMsg,
                    pc, req, started, member_tags, tags_file, mental_state, member_status, hist >>

\* The values a caller of the cache store may set under key k.
ValuesOf(k) ==
    {None(k)} \cup
    (IF k \in MemberKeys THEN {Some(<< >>), Some(RemoteMembers)}
     ELSE IF k = "fronters" THEN {Some(RemoteFronters(<< "a" >>))}
     ELSE {Some(RemoteSystem)})

\* set_in_cache(k, v, ttl) called on its own.
CacheSet(k, v, ttl) ==
    /\ cache' = set_in_cache(cache, k, v, ttl)
    /\ hist' = [hist EXCEPT ![k] =
                  [op |-> IF ttl = 0 \/ ~v.some THEN "inv" ELSE "set",
                   exp |-> IF ttl = 0 \/ ~v.some THEN 0 ELSE now + ttl,
                   val |-> IF ttl = 0 \/ ~v.some THEN None(k) ELSE v,
                   vis |-> Truthy(k, get_from_cache(cache, k)),
                   by |-> ""]]
    /\ UNCHANGED << now, remoteFront, remoteMembers, active_connections, connState, received, wsAt, lastMsg,
                    pc, req, started, member_tags, tags_file, mental_state, member_status >>

\* -------------------------------------------------------------------- init
\* DEFAULT_MEMBER_TAGS, reduced to one of its entries.
DEFAULT_MEMBER_TAGS == ("Cleo" :> << "Host" >>)

Init ==
    /\ now = 0
    /\ cache = [k \in Keys |-> NoEntry(k)]
    /\ remoteFront = << "c" >>
    /\ remoteMembers = RemoteMembers
    /\ active_connections = [g \in Groups |-> {}]
    /\ connState = [w \in Conns |-> "new"]
    /\ lastMsg = [w \in Conns |-> NoMsg]
    /\ received = [w \in Conns |-> ""]
    /\ wsAt = [w \in Conns |-> "receive"]
    /\ pc = [p \in Procs |-> "idle"]
    /\ req = [p \in Procs |-> NewReq("none")]
    /\ started = 0
    /\ member_tags = DEFAULT_MEMBER_TAGS
    /\ tags_file = TRUE
    /\ mental_state = "none"
    /\ member_status = << >>
    /\ hist = [k \in Keys |-> NoHist(k)]

\* ------------------------------------------------- cache store and client
\* The cache store and the upstream client called on their own, one call at
\* a time.
ClientProcs == {"r1"}
ClientInputs == { << "a" >>, << "a", "b", "c" >> }

NextCache ==
    \/ \E k \in {"system", "fronters"} : \E v \in ValuesOf(k) :
          \E ttl \in {0, 1, CACHE_TTL} : CacheSet(k, v, ttl)
    \/ Tick
    \/ \E p \in ClientProcs : SystemInfo(p)
    \/ \E p \in ClientProcs : \E ids \in ClientInputs : CallSetFront(p, ids)
    \/ \E p \in ClientProcs : \E st \in ClientPostStatuses : RemoteSwitch(p, st)
    \/ \E p \in ClientProcs : \E st \in GetStatuses : RemoteGet(p, st)
    \/ \E p \in ClientProcs : Receive(p)
    \/ \E p \in ClientProcs : Leave(p)

SpecCache == Init /\ [][NextCache]_vars

\* ------------------------------------------------------ connection registry
\* The message a caller broadcasts.
Msgs ==
    { [type |-> "force_refresh", members |-> << >>, info |-> "refresh",
       related |-> << >>] }

\* manager.connect(websocket, group): the handshake is accepted and the
\* websocket joins the group.
Connect(conn, group) ==
    /\ connState[conn] \in {"new", "open"}
    /\ conn \notin active_connections[group]
    /\ connState' = [connState EXCEPT ![conn] = "open"]
    /\ active_connections' =
          [active_connections EXCEPT ![group] = @ \cup {conn}]
    /\ UNCHANGED << now, cache, remoteFront, remoteMembers, lastMsg, received, wsAt, pc, req, started,
                    member_tags, tags_file, mental_state, member_status, hist >>

\* The transport of a connected websocket dies: from now on sends to it raise.
Break(conn) ==
    /\ connState[conn] = "open"
    /\ connState' = [connState EXCEPT ![conn] = "broken"]
    /\ UNCHANGED << now, cache, remoteFront, remoteMembers, active_connections, lastMsg, received, wsAt, pc,
                    req, started, member_tags, tags_file, mental_state, member_status, hist >>

\* manager.disconnect(websocket, group), called when the websocket's handler
\* ends; the websocket is not used again.
Disconnect(conn, group) ==
    /\ connState[conn] # "new"
    /\ active_connections' = ManagerDisconnect(active_connections, conn, group)
    /\ connState' = [connState EXCEPT ![conn] = "closed"]
    /\ UNCHANGED << now, cache, remoteFront, remoteMembers, lastMsg, received, wsAt, pc, req, started,
                    member_tags, tags_file, mental_state, member_status, hist >>

\* manager.broadcast(message, group) called on its own.
CallBroadcast(p, msg, group) ==
    /\ CanStart(p)
    /\ LET c1 == EnterBroadcast(Fresh(p, "broadcast"), msg, group, "finish")
       IN  ApplyStart(p, IF c1.pc = "bc_end" THEN ReturnOk(c1) ELSE c1)
    /\ UNCHANGED << now, remoteFront, remoteMembers, connState, received, wsAt, lastMsg >>

\* The ConnectionManager called on its own.
NextRegistry ==
    \/ \E w \in Conns : \E g \in Groups : Connect(w, g)
    \/ \E w \in Conns : Break(w)
    \/ \E w \in Conns : \E g \in Groups : Disconnect(w, g)
    \/ \E p \in Procs : \E m \in Msgs : \E g \in Groups : CallBroadcast(p, m, g)
    \/ \E p \in Procs : \E w \in Conns : BroadcastSend(p, w)

SpecRegistry == Init /\ [][NextRegistry]_vars

\* manager.disconnect(websocket, group) called on its own: the groups the
\* websocket was in before and is in after, and whether the registry is what
\* it was with the websocket taken out.
CallDisconnect(p, conn, group) ==
    /\ CanStart(p)
    /\ LET c0 == Fresh(p, "disconnect")
           ac1 == ManagerDisconnect(c0.ac, conn, group)
       IN  ApplyStart(p, ReturnOk(
               [c0 EXCEPT !.ac = ac1,
                          !.r.ident = conn,
                          !.r.group = group,
                          !.r.was = {g \in Groups : conn \in c0.ac[g]},
                          !.r.left = {g \in Groups : conn \in ac1[g]},
                          !.r.same = (ac1 = [g \in Groups |-> c0.ac[g] \ {conn}])]))
    /\ UNCHANGED << now, remoteFront, remoteMembers, connState, received, wsAt, lastMsg >>

\* The member id lists a caller passes to broadcast_to_interested_clients.
InterestedIds == { << >>, << "a" >> }

\* manager.broadcast_to_interested_clients(member_ids, message_type, data) on
\* entry: the message is built and the copy of "authenticated" is taken.
EnterInterested_Filtered(ctx, member_ids) ==
    LET c1 == EnterBroadcast(
                 ctx,
                 [type |-> "member_update", members |-> << >>, info |-> "",
                  related |-> member_ids],
                 "authenticated", "finish")
    IN  IF member_ids = << >>
        THEN [c1 EXCEPT !.pc = "bc_end", !.r.snapshot = {}, !.r.remaining = {}]
        ELSE [c1 EXCEPT !.pc = IF c1.pc = "bc_end" THEN "bc_end" ELSE "bi_send"]

EnterInterested(ctx, member_ids) ==
    LET c1 == EnterBroadcast(
                 ctx,
                 [type |-> "member_update", members |-> << >>, info |-> "",
                  related |-> member_ids],
                 "authenticated", "finish")
    IN  [c1 EXCEPT !.pc = IF c1.pc = "bc_end" THEN "bc_end" ELSE "bi_send"]

\* manager.broadcast_to_interested_clients called on its own.
CallInterested(p, member_ids) ==
    /\ CanStart(p)
    /\ LET c1 == EnterInterested(
                    [Fresh(p, "interested") EXCEPT !.r.ids = member_ids],
                    member_ids)
       IN  ApplyStart(p, IF c1.pc = "bc_end" THEN ReturnOk(c1) ELSE c1)
    /\ UNCHANGED << now, remoteFront, remoteMembers, connState, received, wsAt, lastMsg >>

\* One pass of the loop of broadcast_to_interested_clients: send_text to one
\* connection of the copy; a failed send disconnects that connection at once.
InterestedSend(p, conn) ==
    /\ pc[p] = "bi_send"
    /\ conn \in req[p].remaining
    /\ LET ok == connState[conn] = "open"
           r1 == [req[p] EXCEPT
                     !.remaining = @ \ {conn},
                     !.delivered = IF ok THEN @ \cup {conn} ELSE @,
                     !.failed = IF ok THEN @ ELSE @ \cup {conn}]
           c1 == [Ctx(p) EXCEPT
                     !.r = r1,
                     !.ac = IF ok THEN @
                            ELSE ManagerDisconnect(@, conn, "authenticated")]
       IN  /\ lastMsg' = IF ok THEN [lastMsg EXCEPT ![conn] = req[p].msg]
                         ELSE lastMsg
           /\ Apply(p, IF r1.remaining # {} THEN c1 ELSE ReturnOk(c1))
    /\ UNCHANGED << now, remoteFront, remoteMembers, connState, received, wsAt, started >>

\* manager.send_personal_message(message, websocket) called on its own, up to
\* its await of send_text.
CallSendPersonal(p, msg, conn) ==
    /\ CanStart(p)
    /\ ApplyStart(p, [Fresh(p, "personal") EXCEPT !.pc = "pm_send",
                                                  !.r.msg = msg,
                                                  !.r.ident = conn])
    /\ UNCHANGED << now, remoteFront, remoteMembers, connState, received, wsAt, lastMsg >>

\* send_text of send_personal_message ends: the message has gone out, or the
\* send raises and self.disconnect(websocket) runs.
PersonalSend(p) ==
    /\ pc[p] = "pm_send"
    /\ LET conn == req[p].ident
           ok == connState[conn] = "open"
           c1 == [Ctx(p) EXCEPT
                     !.r.delivered = IF ok THEN {conn} ELSE {},
                     !.r.failed = IF ok THEN {} ELSE {conn},
                     !.ac = IF ok THEN @ ELSE ManagerDisconnect(@, conn, "all")]
       IN  /\ lastMsg' = IF ok THEN [lastMsg EXCEPT ![conn] = req[p].msg]
                         ELSE lastMsg
           /\ Apply(p, ReturnOk(c1))
    /\ UNCHANGED << now, remoteFront, remoteMembers, connState, received, wsAt, started >>

\* disconnect, send_personal_message and broadcast_to_interested_clients
\* called on their own, one call at a time, with websockets joining, breaking
\* and leaving.
NextRegistryCalls ==
    \/ \E w \in Conns : \E g \in Groups : Connect(w, g)
    \/ \E w \in Conns : Break(w)
    \/ \E w \in Conns : \E g \in Groups : Disconnect(w, g)
    \/ \E p \in ClientProcs : \E w \in Conns : \E g \in Groups :
          CallDisconnect(p, w, g)
    \/ \E p \in ClientProcs : \E ids \in InterestedIds : CallInterested(p, ids)
    \/ \E p \in ClientProcs : \E w \in Conns : InterestedSend(p, w)
    \/ \E p \in ClientProcs : \E m \in Msgs : \E w \in Conns :
          CallSendPersonal(p, m, w)
    \/ \E p \in ClientProcs : PersonalSend(p)

SpecRegistryCalls == Init /\ [][NextRegistryCalls]_vars

\* --------------------------------------------------------------- the server
WsConnect_Authenticated(conn) ==
    /\ connState[conn] = "new"
    /\ Connect(conn, "authenticated")

\* websocket_endpoint up to its receive loop: manager.connect(websocket).
WsConnect(conn) ==
    /\ connState[conn] = "new"
    /\ Connect(conn, "all")

\* websocket_endpoint: receive_text raises, manager.disconnect(websocket).
WsEnd(conn) ==
    /\ connState[conn] \in {"open", "broken"}
    /\ wsAt[conn] = "receive"
    /\ Disconnect(conn, "all")

\* The message websocket_endpoint answers a "ping" with.
Pong == [type |-> "pong", members |-> << >>, info |-> "", related |-> << >>]

\* websocket_endpoint: receive_text returns "ping" and send_text("pong") is
\* called; the handler waits in it.
WsPing(conn) ==
    /\ connState[conn] \in {"open", "broken"}
    /\ wsAt[conn] = "receive"
    /\ received' = [received EXCEPT ![conn] = "ping"]
    /\ wsAt' = [wsAt EXCEPT ![conn] = "send"]
    /\ UNCHANGED << now, cache, remoteFront, remoteMembers, active_connections,
                    connState, lastMsg, pc, req, started, member_tags, tags_file,
                    mental_state, member_status, hist >>

WsPong_Broadcast(conn) ==
    /\ wsAt[conn] = "send"
    /\ wsAt' = [wsAt EXCEPT ![conn] = "receive"]
    /\ lastMsg' = [w \in Conns |->
                     IF connState[w] = "open" /\ w \in active_connections["all"]
                     THEN Pong ELSE lastMsg[w]]
    /\ UNCHANGED << now, cache, remoteFront, remoteMembers, active_connections,
                    connState, received, pc, req, started, member_tags,
                    tags_file, mental_state, member_status, hist >>

\* websocket_endpoint: send_text("pong") ends: "pong" has gone out on the same
\* websocket and the handler is back in receive_text; or the send raises,
\* manager.disconnect(websocket) runs and the handler ends.
WsPong(conn) ==
    /\ wsAt[conn] = "send"
    /\ wsAt' = [wsAt EXCEPT ![conn] = "receive"]
    /\ IF connState[conn] = "open"
       THEN /\ lastMsg' = [lastMsg EXCEPT ![conn] = Pong]
            /\ UNCHANGED << active_connections, connState >>
       ELSE /\ active_connections' =
                  ManagerDisconnect(active_connections, conn, "all")
            /\ connState' = [connState EXCEPT ![conn] = "closed"]
            /\ UNCHANGED lastMsg
    /\ UNCHANGED << now, cache, remoteFront, remoteMembers, received, pc, req,
                    started, member_tags, tags_file, mental_state,
                    member_status, hist >>

\* The texts other than "ping" a client may send.
OtherTexts == {"hello"}

\* websocket_endpoint: receive_text returns another text, which is ignored.
WsOther(conn, data) ==
    /\ connState[conn] \in {"open", "broken"}
    /\ wsAt[conn] = "receive"
    /\ received' = [received EXCEPT ![conn] = data]
    /\ UNCHANGED << now, cache, remoteFront, remoteMembers, active_connections,
                    connState, lastMsg, wsAt, pc, req, started, member_tags,
                    tags_file, mental_state, member_status, hist >>

\* The websocket client and the request bodies of the concurrent runs.
FrontConns == {"w1"}
FrontBodies == [islist : {TRUE}, ids : { <<"a">>, <<"a", "b">> }]
\* The statuses the remote answers the POSTs of the concurrent runs with.
FrontStatuses == {200, 500}

\* Requests that read or set the front, running concurrently and suspended
\* at every await, with the remote and a websocket client that connects.
Next ==
    \/ \E p \in Procs : \E b \in FrontBodies : SwitchFront(p, b)
    \/ \E p \in Procs : Fronters(p)
    \/ \E p \in Procs : \E st \in FrontStatuses : RemoteSwitch(p, st)
    \/ \E p \in Procs : \E st \in GetStatuses : RemoteGet(p, st)
    \/ \E p \in Procs : Receive(p)
    \/ \E p \in Procs : Leave(p)
    \/ \E p \in Procs : \E w \in FrontConns : BroadcastSend(p, w)
    \/ \E w \in FrontConns : WsConnect(w)

Spec == Init /\ [][Next]_vars

\* Every handler that sets the front, one request at a time, with a
\* websocket client and the remote.
NextHandlers ==
    \/ \E p \in ClientProcs : \E b \in SwitchBodies : SwitchFront(p, b)
    \/ \E p \in ClientProcs : \E id \in {"", "a"} : SwitchSingleFront(p, id)
    \/ \E p \in ClientProcs : \E b \in SwitchBodies : SwitchMultipleFronters(p, b)
    \/ \E p \in ClientProcs : \E ids \in SwitchInputs : \E f \in BOOLEAN :
          CreateCustomCofront(p, ids, f)
    \/ \E p \in ClientProcs : \E st \in PostStatuses : RemoteSwitch(p, st)
    \/ \E p \in ClientProcs : \E st \in GetStatuses : RemoteGet(p, st)
    \/ \E p \in ClientProcs : Receive(p)
    \/ \E p \in ClientProcs : Leave(p)
    \/ \E p \in ClientProcs : \E w \in FrontConns : BroadcastSend(p, w)
    \/ \E w \in FrontConns : WsConnect(w)
    \/ \E w \in FrontConns : Break(w)
    \/ \E w \in FrontConns : WsEnd(w)

SpecHandlers == Init /\ [][NextHandlers]_vars

\* The request body of the runs with the clock or with other handlers.
StaleBodies == [islist : {TRUE}, ids : { <<"a">> }]

\* The levels a caller may post to /api/mental-state.
MentalLevels == {"safe", "unstable"}

UpdateMentalState_NoCheck(p, level, is_admin) ==
    /\ CanStart(p)
    /\ LET c0 == [Fresh(p, "mental_state") EXCEPT !.r.admin = is_admin,
                                                  !.r.ident = level]
       IN  ApplyStart(p,
               BroadcastUpdate(
                   Log([c0 EXCEPT !.mental = level], "write"),
                   [type |-> "mental_state_update", members |-> << >>,
                    info |-> level, related |-> << >>],
                   "finish"))
    /\ UNCHANGED << now, remoteFront, remoteMembers, connState, received, wsAt, lastMsg >>

\* POST /api/mental-state: the state is written to mental_state.json and
\* broadcast.
UpdateMentalState(p, level, is_admin) ==
    /\ CanStart(p)
    /\ LET c0 == [Fresh(p, "mental_state") EXCEPT !.r.admin = is_admin,
                                                  !.r.ident = level]
       IN  ApplyStart(p,
               IF ~is_admin THEN Done([c0 EXCEPT !.r.raised = TRUE], 403)
               ELSE BroadcastUpdate(
                       Log([c0 EXCEPT !.mental = level], "write"),
                       [type |-> "mental_state_update", members |-> << >>,
                        info |-> level, related |-> << >>],
                       "finish"))
    /\ UNCHANGED << now, remoteFront, remoteMembers, connState, received, wsAt, lastMsg >>

\* POST /api/admin/refresh
AdminRefresh(p, is_admin) ==
    /\ CanStart(p)
    /\ LET c0 == [Fresh(p, "admin_refresh") EXCEPT !.r.admin = is_admin]
       IN  ApplyStart(p,
               IF ~is_admin THEN Done([c0 EXCEPT !.r.raised = TRUE], 403)
               ELSE BroadcastUpdate(
                       c0,
                       [type |-> "force_refresh", members |-> << >>,
                        info |-> "Admin initiated refresh", related |-> << >>],
                       "finish"))
    /\ UNCHANGED << now, remoteFront, remoteMembers, connState, received, wsAt, lastMsg >>

\* The handlers that broadcast, one request at a time, with the websocket
\* clients and the remote.
NextNotify ==
    \/ \E p \in ClientProcs : \E b \in StaleBodies : SwitchFront(p, b)
    \/ \E p \in ClientProcs : \E l \in MentalLevels : \E a \in BOOLEAN :
          UpdateMentalState(p, l, a)
    \/ \E p \in ClientProcs : \E a \in BOOLEAN : AdminRefresh(p, a)
    \/ \E p \in ClientProcs : \E st \in PostStatuses : RemoteSwitch(p, st)
    \/ \E p \in ClientProcs : \E st \in GetStatuses : RemoteGet(p, st)
    \/ \E p \in ClientProcs : Receive(p)
    \/ \E p \in ClientProcs : Leave(p)
    \/ \E p \in ClientProcs : \E w \in Conns : BroadcastSend(p, w)
    \/ \E w \in Conns : WsConnect(w)
    \/ \E w \in Conns : Break(w)
    \/ \E w \in Conns : WsEnd(w)

SpecNotify == Init /\ [][NextNotify]_vars

\* One request at a time that sets the front and requests that read it,
\* running concurrently and suspended at every await, with the remote and the
\* clock; no websocket is connected.
NextStale ==
    \/ \E p \in ClientProcs : \E b \in StaleBodies : SwitchFront(p, b)
    \/ \E p \in Procs : Fronters(p)
    \/ \E p \in Procs : \E st \in PostStatuses : RemoteSwitch(p, st)
    \/ \E p \in Procs : \E st \in GetStatuses : RemoteGet(p, st)
    \/ \E p \in Procs : Receive(p)
    \/ \E p \in Procs : Leave(p)
    \/ Tick

SpecStale == Init /\ [][NextStale]_vars

\* ---------------------------------------------------------------- tag store
\* The labels of get_subsystems(): DEFAULT_SUBSYSTEMS, which nothing changes.
SubsystemLabels == {}

\* validate_subsystem_tag(tag)
validate_subsystem_tag(tag) == tag \in SubsystemLabels \cup {"host"}

Has(seq, x) == \E i \in 1..Len(seq) : seq[i] = x

\* get_member_tags(): with no member_tags.json, the file is created with
\* DEFAULT_MEMBER_TAGS and the defaults are returned; otherwise the content of
\* the file is returned.  The map returned is in the tags field.
get_member_tags(ctx) ==
    IF ctx.file THEN ctx
    ELSE [ctx EXCEPT !.file = TRUE, !.tags = DEFAULT_MEMBER_TAGS]

\* Python's list.remove: the first occurrence is removed.
ListRemove(seq, x) ==
    LET i == CHOOSE j \in 1..Len(seq) :
                 seq[j] = x /\ \A h \in 1..(j - 1) : seq[h] # x
    IN  SubSeq(seq, 1, i - 1) \o SubSeq(seq, i + 1, Len(seq))

\* update_member_tags(member_identifier, tags): always succeeds.
update_member_tags(mt, ident, tags) ==
    [i \in DOMAIN mt \cup {ident} |-> IF i = ident THEN tags ELSE mt[i]]

\* add_member_tag(member_identifier, tag): the saved map, and whether the tag
\* was added.
add_member_tag(mt, ident, tag) ==
    LET old == IF ident \in DOMAIN mt THEN mt[ident] ELSE << >>
    IN  IF Has(old, tag) THEN [ok |-> FALSE, tags |-> mt]
        ELSE [ok |-> TRUE,
              tags |-> update_member_tags(mt, ident, Append(old, tag))]

\* remove_member_tag(member_identifier, tag)
remove_member_tag(mt, ident, tag) ==
    IF ident \in DOMAIN mt /\ Has(mt[ident], tag)
    THEN [ok |-> TRUE,
          tags |-> [mt EXCEPT ![ident] = ListRemove(mt[ident], tag)]]
    ELSE [ok |-> FALSE, tags |-> mt]

\* The write paths clear the raw member cache after a successful write.
ClearMemberCache(ctx) ==
    LET c1 == Note(ctx, "members_raw", "inv", None("members_raw"), 0)
    IN  Log([c1 EXCEPT !.cache = InvalidateMembersRaw(ctx.cache)], "inv_raw")

TagIdents == {"a", "Cleo"}
TagLists == { << >>, << "host" >>, << "pets" >> }
TagLabels == {"host", "pets"}

\* POST /api/member-tags/{member_identifier}
UpdateMemberTagList(p, ident, tags, is_admin) ==
    /\ CanStart(p)
    /\ LET c0 == [Fresh(p, "update_tags") EXCEPT !.r.ident = ident,
                                                 !.r.tags = tags,
                                                 !.r.admin = is_admin]
       IN  ApplyStart(p,
               IF ~is_admin THEN Done([c0 EXCEPT !.r.raised = TRUE], 403)
               ELSE IF \E i \in 1..Len(tags) : ~validate_subsystem_tag(tags[i])
               THEN Raise(c0, 400)
               ELSE LET c1 == get_member_tags(c0)
                    IN  ReturnOk(ClearMemberCache(
                            [c1 EXCEPT !.tags =
                                update_member_tags(c1.tags, ident, tags)])))
    /\ UNCHANGED << now, remoteFront, remoteMembers, connState, received, wsAt, lastMsg >>

\* POST /api/member-tags/{member_identifier}/add
AddSingleMemberTag(p, ident, tag, is_admin) ==
    /\ CanStart(p)
    /\ LET c0 == [Fresh(p, "add_tag") EXCEPT !.r.ident = ident,
                                             !.r.tags = << tag >>,
                                             !.r.admin = is_admin]
           c1 == get_member_tags(c0)
           res == add_member_tag(c1.tags, ident, tag)
       IN  ApplyStart(p,
               IF ~is_admin THEN Done([c0 EXCEPT !.r.raised = TRUE], 403)
               ELSE IF ~validate_subsystem_tag(tag) THEN Raise(c0, 400)
               ELSE IF res.ok
               THEN ReturnOk(ClearMemberCache([c1 EXCEPT !.tags = res.tags]))
               ELSE ReturnOk(Log(c1, "info")))
    /\ UNCHANGED << now, remoteFront, remoteMembers, connState, received, wsAt, lastMsg >>

\* DELETE /api/member-tags/{member_identifier}/{tag}
RemoveSingleMemberTag(p, ident, tag, is_admin) ==
    /\ CanStart(p)
    /\ LET c0 == [Fresh(p, "remove_tag") EXCEPT !.r.ident = ident,
                                                !.r.tags = << tag >>,
                                                !.r.admin = is_admin]
           c1 == get_member_tags(c0)
           res == remove_member_tag(c1.tags, ident, tag)
       IN  ApplyStart(p,
               IF ~is_admin THEN Done([c0 EXCEPT !.r.raised = TRUE], 403)
               ELSE IF res.ok
               THEN ReturnOk(ClearMemberCache([c1 EXCEPT !.tags = res.tags]))
               ELSE Raise(c1, 404))
    /\ UNCHANGED << now, remoteFront, remoteMembers, connState, received, wsAt, lastMsg >>

\* The member list reads and the tag write paths, one request at a time, with
\* the remote and the clock.
NextMembers ==
    \/ \E p \in ClientProcs : CallGetMembers(p)
    \/ \E p \in ClientProcs : \E i \in TagIdents : \E t \in TagLists :
          \E a \in BOOLEAN : UpdateMemberTagList(p, i, t, a)
    \/ \E p \in ClientProcs : \E i \in TagIdents : \E t \in TagLabels :
          \E a \in BOOLEAN : AddSingleMemberTag(p, i, t, a)
    \/ \E p \in ClientProcs : \E i \in TagIdents : \E t \in {"host", "Host"} :
          \E a \in BOOLEAN : RemoveSingleMemberTag(p, i, t, a)
    \/ \E p \in ClientProcs : \E st \in GetStatuses : RemoteGet(p, st)
    \/ \E p \in ClientProcs : Receive(p)
    \/ \E p \in ClientProcs : Leave(p)
    \/ Tick

SpecMembers == Init /\ [][NextMembers]_vars

\* --------------------------------------------------------------- tag reads
\* get_member_tags_by_id(member_id, member_name): the entry under the name,
\* else the entry under the id, else no tags.
get_member_tags_by_id(mt, member_id, member_name) ==
    IF member_name \in DOMAIN mt THEN mt[member_name]
    ELSE IF member_id \in DOMAIN mt THEN mt[member_id]
    ELSE << >>

\* {**member, "tags": tags}
WithTags(member, tags) ==
    [id |-> member.id, name |-> member.name,
     display_name |-> member.display_name,
     is_special |-> member.is_special,
     original_name |-> member.original_name,
     tags |-> tags]

\* enrich_members_with_tags(members): {**member, "tags": tags} per member.
enrich_members_with_tags(mt, members) ==
    [i \in 1..Len(members) |->
        WithTags(members[i],
                 get_member_tags_by_id(mt, members[i].id, members[i].name))]

\* filter_members_by_subsystem(members, subsystem_filter, include_untagged);
\* subsystem_filter "" stands for None and for the empty string.
filter_members_by_subsystem(mt, members, subsystem_filter, include_untagged) ==
    IF subsystem_filter = "" THEN members
    ELSE LET TagsOf(m) == get_member_tags_by_id(mt, m.id, m.name)
             Kept(m) == \/ Has(TagsOf(m), subsystem_filter)
                        \/ include_untagged /\ TagsOf(m) = << >>
             WithOwnTags(m) == WithTags(m, TagsOf(m))
             kept == SelectSeq(members, Kept)
         IN  [i \in 1..Len(kept) |-> WithOwnTags(kept[i])]

RECURSIVE Occurrences(_, _)
\* How many times x is in seq.
Occurrences(seq, x) ==
    IF seq = << >> THEN 0
    ELSE (IF Head(seq) = x THEN 1 ELSE 0) + Occurrences(Tail(seq), x)

RECURSIVE GroupUnder(_, _, _)
\* The list get_members_by_subsystem builds under key k: a member without
\* tags goes under "untagged", a member with tags is appended once for each
\* of its tags that is k.
GroupUnder(mt, members, k) ==
    IF members = << >> THEN << >>
    ELSE LET m == Head(members)
             tags == get_member_tags_by_id(mt, m.id, m.name)
             times == IF tags = << >> THEN (IF k = "untagged" THEN 1 ELSE 0)
                      ELSE Occurrences(tags, k)
         IN  [i \in 1..times |-> WithTags(m, tags)]
                 \o GroupUnder(mt, Tail(members), k)

\* get_members_by_subsystem(members): one key per subsystem label, "untagged",
\* and "host" once a member with the tag "host" has been seen; a tag that is
\* no key of the result is skipped.
get_members_by_subsystem(mt, members) ==
    LET hosts == \E i \in 1..Len(members) :
                     Has(get_member_tags_by_id(mt, members[i].id, members[i].name),
                         "host")
        keys == SubsystemLabels \cup {"untagged"}
                    \cup (IF hosts THEN {"host"} ELSE {})
    IN  [k \in keys |-> GroupUnder(mt, members, k)]

\* enrich_members_with_tags called on the processed member list: the tag map
\* is read once for each member.
CallEnrich(p) ==
    /\ CanStart(p)
    /\ LET members == ProcessMembers(remoteMembers)
           c0 == [Fresh(p, "enrich") EXCEPT !.r.input = members]
           c1 == IF members = << >> THEN c0 ELSE get_member_tags(c0)
       IN  ApplyStart(p, ReturnOk(
               [c1 EXCEPT !.r.mlist = enrich_members_with_tags(c1.tags, members)]))
    /\ UNCHANGED << now, remoteFront, remoteMembers, connState, received, wsAt, lastMsg >>

\* filter_members_by_subsystem called on the processed member list: without a
\* filter the list is returned as it is, the tag map is not read.
CallFilter(p, subsystem_filter, include_untagged) ==
    /\ CanStart(p)
    /\ LET members == ProcessMembers(remoteMembers)
           c0 == [Fresh(p, "filter") EXCEPT !.r.input = members,
                                            !.r.ident = subsystem_filter,
                                            !.r.flag = include_untagged]
           c1 == IF subsystem_filter = "" THEN c0 ELSE get_member_tags(c0)
       IN  ApplyStart(p, ReturnOk(
               [c1 EXCEPT !.r.mlist =
                   filter_members_by_subsystem(c1.tags, members, subsystem_filter,
                                               include_untagged)]))
    /\ UNCHANGED << now, remoteFront, remoteMembers, connState, received, wsAt, lastMsg >>

\* get_members_by_subsystem called on the processed member list.
CallGroup(p) ==
    /\ CanStart(p)
    /\ LET members == ProcessMembers(remoteMembers)
           c0 == [Fresh(p, "group") EXCEPT !.r.input = members]
           c1 == get_member_tags(c0)
       IN  ApplyStart(p, ReturnOk(
               [c1 EXCEPT !.r.grouped = get_members_by_subsystem(c1.tags, members)]))
    /\ UNCHANGED << now, remoteFront, remoteMembers, connState, received, wsAt, lastMsg >>

\* The keys the tag writes use: the id and the name of the same member.
TagKeys == {"c", "Cleo"}

\* The tag write paths and the tag read, one call at a time.
NextTags ==
    \/ \E p \in ClientProcs : \E i \in TagKeys : \E t \in TagLists :
          \E a \in BOOLEAN : UpdateMemberTagList(p, i, t, a)
    \/ \E p \in ClientProcs : \E i \in TagKeys : \E t \in TagLabels :
          \E a \in BOOLEAN : AddSingleMemberTag(p, i, t, a)
    \/ \E p \in ClientProcs : \E i \in TagKeys : \E t \in {"host", "Host"} :
          \E a \in BOOLEAN : RemoveSingleMemberTag(p, i, t, a)
    \/ \E p \in ClientProcs : CallEnrich(p)

SpecTags == Init /\ [][NextTags]_vars

\* The filters a caller may pass: none, the reserved label, a default label.
TagFilters == {"", "host", "Host"}

\* The content member_tags.json may have when it exists.
StoredMaps == { DEFAULT_MEMBER_TAGS, ("c" :> << "host" >>), << >> }
\* The member lists the tag reads are called on.
StoreLists == { << >>, RemoteMembers }

\* subsystems.py on its own: member_tags.json exists with any of the maps, or
\* has not been created yet.
InitStore ==
    /\ now = 0
    /\ cache = [k \in Keys |-> NoEntry(k)]
    /\ remoteFront = << "c" >>
    /\ remoteMembers \in StoreLists
    /\ active_connections = [g \in Groups |-> {}]
    /\ connState = [w \in Conns |-> "new"]
    /\ lastMsg = [w \in Conns |-> NoMsg]
    /\ received = [w \in Conns |-> ""]
    /\ wsAt = [w \in Conns |-> "receive"]
    /\ pc = [p \in Procs |-> "idle"]
    /\ req = [p \in Procs |-> NewReq("none")]
    /\ started = 0
    /\ tags_file \in BOOLEAN
    /\ member_tags \in (IF tags_file THEN StoredMaps ELSE { << >> })
    /\ mental_state = "none"
    /\ member_status = << >>
    /\ hist = [k \in Keys |-> NoHist(k)]

\* The tag reads and the tag write paths, one call at a time.
NextStore ==
    \/ \E p \in ClientProcs : CallEnrich(p)
    \/ \E p \in ClientProcs : \E f \in TagFilters : \E u \in BOOLEAN :
          CallFilter(p, f, u)
    \/ \E p \in ClientProcs : CallGroup(p)
    \/ \E p \in ClientProcs : \E i \in TagKeys : \E t \in TagLists :
          \E a \in BOOLEAN : UpdateMemberTagList(p, i, t, a)
    \/ \E p \in ClientProcs : \E i \in TagKeys : \E t \in {"host", "Host"} :
          \E a \in BOOLEAN : RemoveSingleMemberTag(p, i, t, a)

SpecStore == InitStore /\ [][NextStore]_vars

\* ------------------------------------------------------------ a hung remote
\* The request whose remote call is never answered, and the other one.
Hung == "r1"
Other == "r2"

\* Request Hung sets or reads the front and the remote never answers it;
\* request Other sets and reads the front, websockets come and go.
NextHung ==
    \/ \E b \in StaleBodies : SwitchFront(Hung, b)
    \/ Fronters(Hung)
    \/ \E b \in StaleBodies : SwitchFront(Other, b)
    \/ Fronters(Other)
    \/ \E st \in PostStatuses : RemoteSwitch(Other, st)
    \/ \E st \in GetStatuses : RemoteGet(Other, st)
    \/ Receive(Other)
    \/ Leave(Other)
    \/ \E w \in FrontConns : BroadcastSend(Other, w)
    \/ \E w \in FrontConns : WsConnect(w)
    \/ \E w \in FrontConns : Break(w)
    \/ \E w \in FrontConns : WsEnd(w)

\* What moves request Other on once it has started: an answer of the remote,
\* or the event loop running its coroutine when the awaited call has returned
\* or a send has ended.  At most one of them is enabled at a time.
OtherStep ==
    \/ \E st \in PostStatuses : RemoteSwitch(Other, st)
    \/ \E st \in GetStatuses : RemoteGet(Other, st)
    \/ Receive(Other)
    \/ Leave(Other)
    \/ \E w \in FrontConns : BroadcastSend(Other, w)

\* The remote answers every call of Other, and the event loop runs every
\* coroutine of Other that is ready.
SpecHung == Init /\ [][NextHung]_vars /\ WF_vars(OtherStep)

\* ------------------------------------------------------------ member status
\* set_member_status(member_identifier, text, emoji): the entry is written.
set_member_status(ms, ident, text) ==
    [i \in DOMAIN ms \cup {ident} |-> IF i = ident THEN text ELSE ms[i]]

\* clear_member_status(member_identifier): the map without the entry, and
\* whether there was one.
clear_member_status(ms, ident) ==
    [ok |-> ident \in DOMAIN ms,
     statuses |-> [i \in DOMAIN ms \ {ident} |-> ms[i]]]

\* The status texts a caller may send: none, a short one, one of 101
\* characters.
StatusTexts ==
    {"", "afk",
     "xxxxxxxxxxxxxxxxxxxxxxxxxxxxxxxxxxxxxxxxxxxxxxxxxxxxxxxxxxxxxxxxxxxxxxxxxxxxxxxxxxxxxxxxxxxxxxxxxxxxx"}

\* POST /api/members/{member_identifier}/status
SetMemberStatus(p, ident, text, is_admin) ==
    /\ CanStart(p)
    /\ LET c0 == [Fresh(p, "set_status") EXCEPT !.r.ident = ident,
                                                !.r.admin = is_admin]
       IN  ApplyStart(p,
               IF ~is_admin THEN Done([c0 EXCEPT !.r.raised = TRUE], 403)
               ELSE IF text = "" THEN Raise(c0, 400)
               ELSE IF Len(text) > 100 THEN Raise(c0, 400)
               ELSE ReturnOk(Log(
                       [c0 EXCEPT !.statuses =
                           set_member_status(c0.statuses, ident, text)],
                       "write")))
    /\ UNCHANGED << now, remoteFront, remoteMembers, connState, received, wsAt, lastMsg >>

\* DELETE /api/members/{member_identifier}/status
ClearMemberStatus(p, ident, is_admin) ==
    /\ CanStart(p)
    /\ LET c0 == [Fresh(p, "clear_status") EXCEPT !.r.ident = ident,
                                                  !.r.admin = is_admin]
           res == clear_member_status(c0.statuses, ident)
       IN  ApplyStart(p,
               IF ~is_admin THEN Done([c0 EXCEPT !.r.raised = TRUE], 403)
               ELSE IF res.ok
               THEN ReturnOk(Log([c0 EXCEPT !.statuses = res.statuses], "write"))
               ELSE ReturnOk(Log(c0, "info")))
    /\ UNCHANGED << now, remoteFront, remoteMembers, connState, received, wsAt, lastMsg >>

\* The handlers for admins only, called by admins and by other users, one
\* request at a time, with a websocket client and the member list cache.
NextAdmin ==
    \/ \E p \in ClientProcs : \E l \in MentalLevels : \E a \in BOOLEAN :
          UpdateMentalState(p, l, a)
    \/ \E p \in ClientProcs : \E a \in BOOLEAN : AdminRefresh(p, a)
    \/ \E p \in ClientProcs : \E i \in TagIdents : \E t \in TagLists :
          \E a \in BOOLEAN : UpdateMemberTagList(p, i, t, a)
    \/ \E p \in ClientProcs : \E i \in TagIdents : \E t \in TagLabels :
          \E a \in BOOLEAN : AddSingleMemberTag(p, i, t, a)
    \/ \E p \in ClientProcs : \E i \in TagIdents : \E t \in {"host", "Host"} :
          \E a \in BOOLEAN : RemoveSingleMemberTag(p, i, t, a)
    \/ \E p \in ClientProcs : \E i \in TagIdents : \E t \in StatusTexts :
          \E a \in BOOLEAN : SetMemberStatus(p, i, t, a)
    \/ \E p \in ClientProcs : \E i \in TagIdents : \E a \in BOOLEAN :
          ClearMemberStatus(p, i, a)
    \/ \E p \in ClientProcs : CallGetMembers(p)
    \/ \E p \in ClientProcs : \E st \in GetStatuses : RemoteGet(p, st)
    \/ \E p \in ClientProcs : Receive(p)
    \/ \E p \in ClientProcs : Leave(p)
    \/ \E p \in ClientProcs : \E w \in FrontConns : BroadcastSend(p, w)
    \/ \E w \in FrontConns : WsConnect(w)
    \/ \E w \in FrontConns : Break(w)
    \/ \E w \in FrontConns : WsEnd(w)

SpecAdmin == Init /\ [][NextAdmin]_vars

\* ------------------------------------------------------------ member detail
\* GET /api/member/{member_id}
MemberDetail(p, member_id) ==
    /\ CanStart(p)
    /\ ApplyStart(p, EnterGetMembers(
                        [Fresh(p, "member_detail") EXCEPT !.r.ident = member_id],
                        "detail"))
    /\ UNCHANGED << now, remoteFront, remoteMembers, connState, received, wsAt, lastMsg >>

\* The path parameters a caller may send: an id, a name in another case, and
\* two that match no member.
DetailIds == {"a", "CLEO", "zz", "Bob"}

\* Member detail requests, one at a time, with the remote and the clock.
NextDetail ==
    \/ \E p \in ClientProcs : \E id \in DetailIds : MemberDetail(p, id)
    \/ \E p \in ClientProcs : \E st \in GetStatuses : RemoteGet(p, st)
    \/ \E p \in ClientProcs : Receive(p)
    \/ \E p \in ClientProcs : Leave(p)
    \/ Tick

SpecDetail == Init /\ [][NextDetail]_vars

\* ------------------------------------------------- member list and fronters
\* Member objects the remote may hold: a plain member, the same member renamed
\* to a special name, and a member named "system" with a display name of its
\* own.
Alice == RawMember("a", "Alice")
Renamed == [RawMember("a", "sleeping") EXCEPT !.display_name = "Al"]
Sys == [RawMember("b", "system") EXCEPT !.display_name = "Sys"]

\* The member lists and the fronts the remote may have.
RosterLists == { << >>, << Alice >>, << Alice, Sys >>, << Sys, Renamed >> }
RosterFronts == { << >>, << "b", "a" >> }

IdsIn(list) == {list[i].id : i \in 1..Len(list)}
IdsOf(f) == {f[i] : i \in 1..Len(f)}

\* The remote's member list changes (a member is created, renamed or
\* deleted by another client of the remote); the fronters stay members.
RemoteEdit(list) ==
    /\ list # remoteMembers
    /\ IdsOf(remoteFront) \subseteq IdsIn(list)
    /\ remoteMembers' = list
    /\ UNCHANGED << now, cache, remoteFront, active_connections, connState, received, wsAt,
                    lastMsg, pc, req, started, member_tags, tags_file, mental_state, member_status, hist >>

\* Another client of the remote registers a switch to its members f.
RemoteFrontChange(f) ==
    /\ f # remoteFront
    /\ IdsOf(f) \subseteq IdsIn(remoteMembers)
    /\ remoteFront' = f
    /\ UNCHANGED << now, cache, remoteMembers, active_connections, connState, received, wsAt,
                    lastMsg, pc, req, started, member_tags, tags_file, mental_state, member_status, hist >>

\* The remote has any of the member lists and nobody fronting.
InitRoster ==
    /\ now = 0
    /\ cache = [k \in Keys |-> NoEntry(k)]
    /\ remoteFront = << >>
    /\ remoteMembers \in RosterLists
    /\ active_connections = [g \in Groups |-> {}]
    /\ connState = [w \in Conns |-> "new"]
    /\ lastMsg = [w \in Conns |-> NoMsg]
    /\ received = [w \in Conns |-> ""]
    /\ wsAt = [w \in Conns |-> "receive"]
    /\ pc = [p \in Procs |-> "idle"]
    /\ req = [p \in Procs |-> NewReq("none")]
    /\ started = 0
    /\ member_tags = DEFAULT_MEMBER_TAGS
    /\ tags_file = TRUE
    /\ mental_state = "none"
    /\ member_status = << >>
    /\ hist = [k \in Keys |-> NoHist(k)]

\* get_members and get_fronters, one call at a time, with the clock, while
\* the remote's member list and front change.
NextRoster ==
    \/ \E p \in ClientProcs : CallGetMembers(p)
    \/ \E p \in ClientProcs : CallGetFronters(p)
    \/ \E p \in ClientProcs : \E st \in GetStatuses : RemoteGet(p, st)
    \/ \E p \in ClientProcs : Receive(p)
    \/ \E p \in ClientProcs : Leave(p)
    \/ \E list \in RosterLists : RemoteEdit(list)
    \/ \E f \in RosterFronts : RemoteFrontChange(f)
    \/ Tick

SpecRoster == InitRoster /\ [][NextRoster]_vars

\* ------------------------------------------------------------- subscribers
\* The websocket endpoint with its clients, a handler that broadcasts and
\* broadcast_to_interested_clients, one call at a time.  No call of
\* broadcast_to_interested_clients gets as far as a send here.
NextServer ==
    \/ \E w \in Conns : WsConnect(w)
    \/ \E w \in Conns : WsPing(w)
    \/ \E w \in Conns : WsPong(w)
    \/ \E w \in Conns : \E d \in OtherTexts : WsOther(w, d)
    \/ \E w \in Conns : Break(w)
    \/ \E w \in Conns : WsEnd(w)
    \/ \E p \in ClientProcs : \E a \in BOOLEAN : AdminRefresh(p, a)
    \/ \E p \in ClientProcs : \E w \in Conns : BroadcastSend(p, w)
    \/ \E p \in ClientProcs : \E ids \in InterestedIds : CallInterested(p, ids)

SpecServer == Init /\ [][NextServer]_vars

\* ------------------------------------------------------------- termination
\* Switch requests, one at a time, with the websocket clients and the remote.
NextLive ==
    \/ \E p \in ClientProcs : \E b \in StaleBodies : SwitchFront(p, b)
    \/ \E p \in ClientProcs : \E st \in PostStatuses : RemoteSwitch(p, st)
    \/ \E p \in ClientProcs : \E st \in GetStatuses : RemoteGet(p, st)
    \/ \E p \in ClientProcs : Receive(p)
    \/ \E p \in ClientProcs : Leave(p)
    \/ \E p \in ClientProcs : \E w \in Conns : BroadcastSend(p, w)
    \/ \E w \in Conns : WsConnect(w)
    \/ \E w \in Conns : Break(w)
    \/ \E w \in Conns : WsEnd(w)

\* What moves a started request on: the remote answering its call, the event
\* loop running its coroutine once the awaited call has returned, a send
\* returning or failing.  At most one of them is enabled at a time.
LiveStep ==
    \/ \E p \in ClientProcs : \E st \in PostStatuses : RemoteSwitch(p, st)
    \/ \E p \in ClientProcs : \E st \in GetStatuses : RemoteGet(p, st)
    \/ \E p \in ClientProcs : Receive(p)
    \/ \E p \in ClientProcs : Leave(p)
    \/ \E p \in ClientProcs : \E w \in Conns : BroadcastSend(p, w)

\* Every remote call is answered and every send returns or fails.
SpecLive == Init /\ [][NextLive]_vars /\ WF_vars(LiveStep)

\* --------------------------------------------------------- the four keys
\* The reads and set_front of the upstream client and a tag write path, one
\* call at a time, with a caller of the store that fills "system", the remote
\* and the clock.
NextKeys ==
    \/ CacheSet("system", Some(RemoteSystem), CACHE_TTL)
    \/ \E p \in ClientProcs : SystemInfo(p)
    \/ \E p \in ClientProcs : CallGetFronters(p)
    \/ \E p \in ClientProcs : \E ids \in { << "a" >> } : CallSetFront(p, ids)
    \/ \E p \in ClientProcs : \E t \in { << >>, << "host" >> } :
          UpdateMemberTagList(p, "a", t, TRUE)
    \/ \E p \in ClientProcs : AddSingleMemberTag(p, "a", "host", TRUE)
    \/ \E p \in ClientProcs : RemoveSingleMemberTag(p, "a", "host", TRUE)
    \/ \E p \in ClientProcs : \E st \in PostStatuses : RemoteSwitch(p, st)
    \/ \E p \in ClientProcs : \E st \in GetStatuses : RemoteGet(p, st)
    \/ \E p \in ClientProcs : Receive(p)
    \/ \E p \in ClientProcs : Leave(p)
    \/ Tick

SpecKeys == Init /\ [][NextKeys]_vars

\* ================================================================== claims

\* C1: the last write asked for on a key was an invalidation (ttl 0 or value
\* None, by a caller of the store or by set_front): a get of that key returns
\* None, at once and at any later time until the key is set again.
C1_InvalidatedThenAbsent ==
    \A k \in Keys : hist[k].op = "inv" => ~get_from_cache(cache, k).some

\* set_front has just invalidated a "fronters" entry readers could see, and
\* its POST is in flight.
C1_Witness ==
    /\ pc["r1"] = "post_sent"
    /\ req["r1"].log = << "inv", "post" >>
    /\ hist["fronters"].op = "inv"
    /\ hist["fronters"].vis

\* C2 (as claimed): the last write asked for on a key set value v to expire
\* at t + ttl: a get returns v at every time before t + ttl and None from
\* t + ttl on; and every get_system answered from the cache got the value
\* last set, before its expiry.
C2_VisibleUntilExpiry ==
    /\ \A k \in Keys :
          hist[k].op = "set" =>
             get_from_cache(cache, k) =
                IF now < hist[k].exp THEN hist[k].val ELSE None(k)
    /\ \A p \in Procs : req[p].fresh

\* C4 (as claimed): every set-front operation given more than MAX_FRONTERS ids
\* is rejected before it invalidates "fronters" and before it issues the POST.
C4_OversizeRejectedFirst ==
    \A p \in Procs :
        (req[p].kind \in SetFrontKinds /\ Len(req[p].ids) > MAX_FRONTERS)
            => (pc[p] = "done" /\ req[p].raised /\ req[p].log = << >>)

\* C6: when a broadcast has returned, every connection that was in the group
\* when it started had its send attempted (delivered or failed, whichever
\* other sends failed), and every connection whose send failed is in no group.
C6_BroadcastIsolatesFailures ==
    \A p \in Procs :
        (pc[p] = "done" /\ req[p].kind = "broadcast") =>
            /\ req[p].remaining = {}
            /\ req[p].delivered \cup req[p].failed = req[p].snapshot
            /\ req[p].delivered \cap req[p].failed = {}
            /\ \A w \in req[p].failed : \A g \in Groups :
                  w \notin active_connections[g]

\* A broadcast has returned with one send failed and one delivered.
C6_Witness ==
    \E p \in Procs :
        /\ pc[p] = "done"
        /\ req[p].kind = "broadcast"
        /\ req[p].failed # {}
        /\ req[p].delivered # {}

\* Handlers that change state.
MutatingKinds ==
    {"switch", "switch_single", "multi_switch", "cofront", "mental_state",
     "update_tags", "add_tag", "remove_tag", "set_status", "clear_status"}

\* The input of a set-front request is invalid.
InvalidFrontInput(r) ==
    \/ ~r.islist
    \/ Len(r.ids) > MAX_FRONTERS
    \/ (r.kind = "cofront" /\ Len(r.ids) < 2)

\* Event e comes before event f in log.
Before(log, e, f) ==
    \E i \in 1..Len(log) : \E j \in 1..Len(log) :
        i < j /\ log[i] = e /\ log[j] = f

\* C3 (as claimed): while the last write on "members_raw" is the
\* invalidation by a tag write path, get_members finds no "members" entry.
C3_RawAndProcessedInvalidatedTogether ==
    hist["members_raw"].op = "inv" =>
        ~Truthy("members", get_from_cache(cache, "members"))

\* C5 (as claimed): switch, multi-switch and create cofront answer an invalid
\* input with status 400.
C5_InvalidInputIsClientError ==
    \A p \in Procs :
        ( /\ pc[p] = "done"
          /\ req[p].kind \in {"switch", "multi_switch", "cofront"}
          /\ InvalidFrontInput(req[p]) )
            => req[p].status = 400

\* C7: a switch that ran with no other request and answered 200 did, in this
\* order: invalidate "fronters", POST exactly its ids, fetch the fronters from
\* the remote (no cache hit) and get its ids back, broadcast once, to group
\* "all", a fronting_update carrying the fetched members.
C7_EndToEndSwitch ==
    \A p \in Procs :
        ( /\ pc[p] = "done"
          /\ req[p].kind = "switch"
          /\ req[p].status = 200
          /\ req[p].solo )
            => /\ req[p].log = << "inv", "post", "post_ok", "get", "bcast" >>
               /\ req[p].posted = req[p].ids
               /\ Len(req[p].ids) <= MAX_FRONTERS
               /\ FrontIds(req[p].data) = req[p].ids
               /\ req[p].msg.type = "fronting_update"
               /\ req[p].msg.members = req[p].data.members
               /\ req[p].group = "all"

\* A switch to ["a", "b"] ran alone, answered 200 and its fronting_update
\* reached a websocket.
C7_Witness ==
    \E p \in Procs :
        /\ pc[p] = "done"
        /\ req[p].kind = "switch"
        /\ req[p].status = 200
        /\ req[p].solo
        /\ req[p].ids = << "a", "b" >>
        /\ req[p].delivered # {}
        /\ \E w \in Conns : lastMsg[w] = req[p].msg

\* C8 (as claimed): no get_fronters is answered from a cache hit that holds
\* the front as it was before a write another request has in flight.
C8_NoPreWriteHitWhileInFlight ==
    \A p \in Procs : ~req[p].stale

\* C9 (as claimed): in a set-front request that answered 200 the POST
\* returned, then "fronters" was invalidated, then the front was re-read,
\* then it was broadcast.
C9_InvalidateBetweenWriteAndReread ==
    \A p \in Procs :
        ( /\ pc[p] = "done"
          /\ req[p].kind \in {"switch", "switch_single", "multi_switch", "cofront"}
          /\ Before(req[p].log, "post", "post_ok")
          /\ req[p].status = 200 )
            => /\ Before(req[p].log, "post_ok", "inv")
               /\ \/ Before(req[p].log, "inv", "get")
                  \/ Before(req[p].log, "inv", "hit")
               /\ Before(req[p].log, "post_ok", "bcast")

\* C10 (as claimed): a mutating request that answered 200 after changing
\* state has broadcast to a group before answering.
C10_MutationIsBroadcast ==
    \A p \in Procs :
        ( /\ pc[p] = "done"
          /\ req[p].kind \in MutatingKinds
          /\ req[p].status = 200
          /\ ~Has(req[p].log, "info") )
            => Has(req[p].log, "bcast")

\* C17 (as claimed): set_front raises on every remote status outside 2xx and
\* returns on every 2xx status: the parsed body when the answer has one, None
\* when it has none.
C17_Every2xxIsSuccess ==
    \A p \in Procs :
        (pc[p] = "done" /\ req[p].kind = "set_front" /\ req[p].rstatus # 0) =>
            IF Is2xx(req[p].rstatus)
            THEN /\ ~req[p].raised
                 /\ req[p].ret = IF HasContent(req[p].rstatus) THEN "json"
                                 ELSE "None"
            ELSE req[p].raised

\* C11: the remote front is exactly the list posted by the set-front request
\* whose write the remote applied last; when two switch requests have both
\* answered 200, the front is the id list of one of them, the one applied
\* last, whatever the interleaving.
C11_LastRemoteWriteWins ==
    /\ \A p \in Procs : req[p].last => remoteFront = req[p].posted
    /\ \A p \in Procs : \A q \in Procs \ {p} :
          ( /\ pc[p] = "done" /\ req[p].kind = "switch" /\ req[p].status = 200
            /\ pc[q] = "done" /\ req[q].kind = "switch" /\ req[q].status = 200 )
              => \E w \in {p, q} :
                    /\ req[w].last
                    /\ \A v \in {p, q} \ {w} : ~req[v].last
                    /\ remoteFront = req[w].ids

\* Two switch requests with different id lists overlapped, both answered 200,
\* and the front is the list of the one applied last.
C11_Witness ==
    /\ pc["r1"] = "done" /\ req["r1"].kind = "switch" /\ req["r1"].status = 200
    /\ pc["r2"] = "done" /\ req["r2"].kind = "switch" /\ req["r2"].status = 200
    /\ ~req["r1"].solo /\ ~req["r2"].solo
    /\ req["r1"].ids = << "a" >> /\ req["r2"].ids = << "a", "b" >>
    /\ req["r1"].last
    /\ remoteFront = << "a" >>

\* C12: a read of the front that starts when no set-front request is running
\* and the last fill of "fronters" is at least CACHE_TTL old, and during and
\* after which no set-front request starts, returns the remote front: an entry
\* that differs from the remote front is served within CACHE_TTL of its fill
\* only.
C12_StalenessBoundedByTtl ==
    \A p \in Procs :
        ( /\ pc[p] = "done"
          /\ req[p].kind = "fronters"
          /\ req[p].status = 200
          /\ req[p].quiet )
            => FrontIds(req[p].data) = remoteFront

\* A switch to ["a"] answered 200 after re-reading from the cache the front
\* as it was before its write; CACHE_TTL after that fill a read missed and
\* returned the remote front ["a"].
C12_Witness ==
    \E p \in Procs : \E q \in Procs \ {p} :
        /\ pc[q] = "done" /\ req[q].kind = "switch" /\ req[q].status = 200
        /\ FrontIds(req[q].data) # req[q].ids
        /\ pc[p] = "done" /\ req[p].kind = "fronters" /\ req[p].status = 200
        /\ req[p].quiet
        /\ req[p].log = << "get" >>
        /\ FrontIds(req[p].data) = req[q].ids
        /\ now >= CACHE_TTL

\* C13: when disconnect(conn, group) has returned, conn is in no group, every
\* other membership is as it was, and nothing was raised; for a conn that was
\* in no group this means the registry is unchanged.
C13_DisconnectRemovesEverywhere ==
    \A p \in Procs :
        (pc[p] = "done" /\ req[p].kind = "disconnect") =>
            /\ req[p].left = {}
            /\ req[p].same
            /\ ~req[p].raised

\* disconnect was applied to a connected websocket that an earlier disconnect
\* had taken out of every group, while the other websocket is in a group.
C13_Witness ==
    \E p \in Procs :
        /\ pc[p] = "done" /\ req[p].kind = "disconnect"
        /\ req[p].was = {}
        /\ connState[req[p].ident] = "open"
        /\ \E w \in Conns \ {req[p].ident} : w \in active_connections["all"]

\* C16: in every state, the connections broadcast_to_interested_clients would
\* send to are exactly those in "authenticated", for every member_ids; and
\* when a call has returned, each of them had its send attempted and no other
\* connection had.
C16_InterestedReachesAuthenticated ==
    \A p \in Procs :
        /\ \A ids \in InterestedIds :
              EnterInterested(Fresh(p, "interested"), ids).r.snapshot
                  = active_connections["authenticated"]
        /\ \A ids1 \in InterestedIds : \A ids2 \in InterestedIds :
              EnterInterested(Fresh(p, "interested"), ids1).r.snapshot
                  = EnterInterested(Fresh(p, "interested"), ids2).r.snapshot
        /\ (pc[p] = "done" /\ req[p].kind = "interested") =>
              /\ req[p].group = "authenticated"
              /\ req[p].remaining = {}
              /\ req[p].delivered \cup req[p].failed = req[p].snapshot
              /\ req[p].delivered \cap req[p].failed = {}
              /\ \A w \in req[p].delivered : lastMsg[w].type = "member_update"

\* A call with an empty member_ids has returned after delivering to a
\* websocket of "authenticated", while an open websocket that is in "all"
\* only received nothing.
C16_Witness ==
    \E p \in Procs :
        /\ pc[p] = "done" /\ req[p].kind = "interested"
        /\ req[p].ids = << >>
        /\ req[p].delivered # {}
        /\ \E w \in Conns \ req[p].snapshot :
              /\ connState[w] = "open"
              /\ w \in active_connections["all"]
              /\ lastMsg[w] = NoMsg

\* A websocket in a group has had its handshake accepted by connect.
JoinedByConnect ==
    \A w \in Conns : \A g \in Groups :
        w \in active_connections[g] => connState[w] # "new"

\* C14 (as claimed): a websocket that has been disconnected, or to which a
\* send of a broadcast has failed, is in no group.
C14_FailedSendIsInNoGroup ==
    /\ JoinedByConnect
    /\ \A w \in Conns :
          (connState[w] = "closed" \/ \E p \in Procs : w \in req[p].failed)
              => \A g \in Groups : w \notin active_connections[g]

\* C14 (amended): a websocket that has been disconnected, or to which a send
\* failed in a broadcast whose loop over the group has ended, is in no group.
C14_DisconnectedIsTerminal ==
    /\ JoinedByConnect
    /\ \A w \in Conns :
          ( \/ connState[w] = "closed"
            \/ \E p \in Procs : (w \in req[p].failed /\ pc[p] # "bc_send") )
              => \A g \in Groups : w \notin active_connections[g]

\* The broadcast of a finished request failed to send to one websocket, which
\* is in no group now, and delivered to the other, which is still in "all".
C14_Witness ==
    \E p \in Procs : \E w \in Conns : \E v \in Conns \ {w} :
        /\ pc[p] = "done"
        /\ w \in req[p].failed
        /\ connState[w] = "broken"
        /\ \A g \in Groups : w \notin active_connections[g]
        /\ v \in req[p].delivered
        /\ v \in active_connections["all"]

\* C15: a switch, mental-state update or admin refresh that got as far as its
\* broadcast answers 200 and raises nothing, whichever sends of the broadcast
\* failed.
C15_SendFailureNotInResult ==
    \A p \in Procs :
        ( /\ pc[p] = "done"
          /\ req[p].kind \in {"switch", "mental_state", "admin_refresh"}
          /\ Has(req[p].log, "bcast") )
            => /\ req[p].status = 200
               /\ ~req[p].raised
               /\ req[p].failed \cup req[p].delivered = req[p].snapshot
               /\ req[p].kind = "mental_state" => mental_state = req[p].ident

\* A switch whose POST succeeded answered 200 although the sends to both
\* websockets of "all" failed.
C15_Witness ==
    \E p \in Procs :
        /\ pc[p] = "done"
        /\ req[p].kind = "switch"
        /\ Has(req[p].log, "post_ok")
        /\ req[p].status = 200
        /\ req[p].snapshot = Conns
        /\ req[p].failed = Conns

\* C18: a switch or multi-switch request with an empty id list is not
\* rejected by a check: it fails only when a remote call failed; its POST
\* carries an empty members list, after a successful POST the remote front is
\* empty, and the front it then reads and broadcasts is empty.
C18_EmptyFrontAccepted ==
    \A p \in Procs :
        ( /\ pc[p] = "done"
          /\ req[p].kind \in {"switch", "multi_switch"}
          /\ req[p].islist
          /\ req[p].ids = << >> )
            => /\ (req[p].status = 200 \/ Has(req[p].log, "err"))
               /\ (Has(req[p].log, "post") => req[p].posted = << >>)
               /\ (Has(req[p].log, "post_ok") => remoteFront = << >>)
               /\ (req[p].status = 200 =>
                     /\ Has(req[p].log, "post_ok")
                     /\ FrontIds(req[p].data) = << >>
                     /\ req[p].msg.members = << >>)

\* A switch with an empty list answered 200 and the remote front, ["c"]
\* before, is empty.
C18_Witness ==
    \E p \in Procs :
        /\ pc[p] = "done"
        /\ req[p].kind = "switch"
        /\ req[p].islist
        /\ req[p].ids = << >>
        /\ req[p].status = 200
        /\ req[p].log = << "inv", "post", "post_ok", "get", "bcast" >>
        /\ remoteFront = << >>

\* C19: every step that changes the remote front is the remote handling the
\* POST of a set-front request (for a cofront request, one with
\* set_as_current), and the new front is exactly that request's id list; every
\* POST the remote answers with 2xx leaves the front equal to the request's id
\* list.
C19_SetFrontReplacesFront ==
    [][ /\ remoteFront' # remoteFront =>
              \E p \in Procs :
                 /\ pc[p] = "post_sent" /\ pc'[p] = "post_resp"
                 /\ req[p].kind \in SetFrontKinds
                 /\ (req[p].kind = "cofront" => req[p].flag)
                 /\ remoteFront' = req[p].ids
        /\ \A p \in Procs :
              ( /\ pc[p] = "post_sent" /\ pc'[p] = "post_resp"
                /\ Is2xx(req'[p].resp.status) )
                  => remoteFront' = req[p].ids
      ]_vars

\* A single switch to "a" answered 200 and the front, ["c"] before, is ["a"].
C19_Witness ==
    \E p \in Procs :
        /\ pc[p] = "done"
        /\ req[p].kind = "switch_single"
        /\ req[p].status = 200
        /\ req[p].ids = << "a" >>
        /\ remoteFront = << "a" >>

\* C20: whatever switch, single-switch, multi-switch and cofront requests
\* have run, the remote front has at most MAX_FRONTERS members, and no request
\* has posted more.
C20_FrontWithinMaxFronters ==
    /\ Len(remoteFront) <= MAX_FRONTERS
    /\ \A p \in Procs : Len(req[p].posted) <= MAX_FRONTERS

\* The front has MAX_FRONTERS members and a multi-switch request with more
\* ids was turned down before it read or posted anything.
C20_Witness ==
    \E p \in Procs :
        /\ Len(remoteFront) = MAX_FRONTERS
        /\ pc[p] = "done"
        /\ req[p].kind = "multi_switch"
        /\ Len(req[p].ids) > MAX_FRONTERS
        /\ req[p].raised
        /\ req[p].log = << >>

\* A member named "system" is shown as the special member "Unsure".
ShownAsUnsure(list) ==
    \A i \in 1..Len(list) :
        list[i].name = "system" =>
            (list[i].display_name = "Unsure" /\ list[i].is_special)

\* C21 (as claimed): in every result of get_members and in the members of
\* every result of get_fronters, fetched or read from the cache, a member
\* named "system" has display name "Unsure" and is_special = true.
C21_SystemIsUnsure ==
    \A p \in Procs :
        (pc[p] = "done" /\ ~req[p].raised) =>
            /\ req[p].kind = "get_members" => ShownAsUnsure(req[p].mlist)
            /\ req[p].kind = "get_fronters" => ShownAsUnsure(req[p].data.members)


\* The last write asked for on key k cached a value whose TTL has not run out.
Live(k) == hist[k].op = "set" /\ now < hist[k].exp

\* C22 (as claimed): get_system, get_members and get_fronters send their GET
\* only when the cache holds no live value under their key; a call that starts
\* while a fetch's value is live returns that value at once.
C22_RemoteOnlyOnMiss ==
    [][ \A p \in Procs :
          /\ (pc[p] # "gs_sent" /\ pc'[p] = "gs_sent") => ~Live("system")
          /\ (pc[p] # "gm_sent" /\ pc'[p] = "gm_sent") => ~Live("members")
          /\ (pc[p] # "gf_sent" /\ pc'[p] = "gf_sent") => ~Live("fronters")
          /\ (pc[p] \in {"idle", "done"} /\ started' = started + 1 /\ pc'[p] # "idle") =>
                /\ (req'[p].kind = "system_info" /\ Live("system")) =>
                      (pc'[p] = "done" /\ req'[p].sys.id = hist["system"].val.value.id)
                /\ (req'[p].kind = "get_members" /\ Live("members")) =>
                      (pc'[p] = "done" /\ Some(req'[p].mlist) = hist["members"].val)
                /\ (req'[p].kind = "get_fronters" /\ Live("fronters")) =>
                      (pc'[p] = "done" /\ Some(req'[p].data) = hist["fronters"].val)
      ]_vars


\* C23 (as claimed): in the result of enrich_members_with_tags, a member whose
\* id and whose name are both keys of the tag map, with different tag lists,
\* carries the tags stored under its id.
C23_IdentifierTakesPrecedence ==
    \A p \in Procs :
        (pc[p] = "done" /\ req[p].kind = "enrich") =>
            \A i \in 1..Len(req[p].mlist) :
                LET m == req[p].mlist[i]
                IN  ( /\ m.id \in DOMAIN member_tags
                      /\ m.name \in DOMAIN member_tags
                      /\ member_tags[m.id] # member_tags[m.name] )
                        => m.tags = member_tags[m.id]


\* C24 (as claimed): every label stored in the member tag map, as initialised
\* from DEFAULT_MEMBER_TAGS and after any update-tags, add-tag and remove-tag
\* requests, is a configured subsystem label or "host".
C24_StoredTagsAreValid ==
    \A k \in DOMAIN member_tags :
        \A i \in 1..Len(member_tags[k]) :
            validate_subsystem_tag(member_tags[k][i])


\* C25: no step of a create-cofront request without set_as_current issues the
\* POST of a switch, changes the remote front or the "fronters" entry, or
\* sends a websocket anything but its cofront_update; and a step of a
\* create-cofront request that changes the remote front belongs to one with
\* set_as_current and sets the front to that request's member ids.
C25_CofrontAloneLeavesFront ==
    [][ \A p \in Procs :
          (req'[p].kind = "cofront" /\ (pc'[p] # pc[p] \/ req'[p] # req[p])) =>
             /\ ~req'[p].flag =>
                   /\ pc'[p] # "post_sent"
                   /\ remoteFront' = remoteFront
                   /\ cache'["fronters"] = cache["fronters"]
                   /\ req'[p].msg.type # "fronting_update"
                   /\ \A w \in Conns :
                         lastMsg'[w] # lastMsg[w] =>
                            lastMsg'[w].type = "cofront_update"
             /\ remoteFront' # remoteFront =>
                   (req'[p].flag /\ remoteFront' = req'[p].ids)
      ]_vars

\* A cofront of "a" and "b" was created without set_as_current while the
\* front was another one and "fronters" held an entry: the request answered
\* 200, its cofront_update reached a websocket, the front and the entry are as
\* they were.
C25_Witness ==
    \E p \in Procs : \E w \in Conns :
        /\ pc[p] = "done"
        /\ req[p].kind = "cofront"
        /\ ~req[p].flag
        /\ req[p].ids = << "a", "b" >>
        /\ req[p].status = 200
        /\ w \in req[p].delivered
        /\ lastMsg[w].type = "cofront_update"
        /\ remoteFront = << "a" >>
        /\ Truthy("fronters", get_from_cache(cache, "fronters"))
        /\ FrontIds(cache["fronters"].value.value) = << "a" >>


\* Some member of the remote has the id member_id or, up to case, the name.
Exists(member_id) ==
    \E i \in 1..Len(remoteMembers) :
        \/ remoteMembers[i].id = member_id
        \/ Lower(remoteMembers[i].name) = Lower(member_id)

\* C26 (as claimed): a member detail request for an id or name that no member
\* has, whose read of the member list succeeded, answers 404.
C26_MissingMemberIsNotFound ==
    \A p \in Procs :
        ( /\ pc[p] = "done"
          /\ req[p].kind = "member_detail"
          /\ ~Exists(req[p].ident)
          /\ ~Has(req[p].log, "err") )
            => req[p].status = 404


\* The handlers that are for admins only.
PrivilegedKinds ==
    {"mental_state", "update_tags", "add_tag", "remove_tag", "set_status",
     "clear_status", "admin_refresh"}

\* C27: the step in which a user who is not an admin calls a privileged
\* handler ends the request with status 403, changes neither the tag map, the
\* mental state, the status map, the cache nor the connection registry, and
\* starts no broadcast and sends no message.
C27_NonAdminIsForbidden ==
    [][ \A p \in Procs :
          ( /\ pc[p] \in {"idle", "done"}
            /\ started' = started + 1
            /\ (pc'[p] # pc[p] \/ req'[p] # req[p])
            /\ req'[p].kind \in PrivilegedKinds
            /\ ~req'[p].admin )
              => /\ pc'[p] = "done"
                 /\ req'[p].status = 403
                 /\ req'[p].raised
                 /\ req'[p].log = << >>
                 /\ member_tags' = member_tags
                 /\ mental_state' = mental_state
                 /\ member_status' = member_status
                 /\ cache' = cache
                 /\ active_connections' = active_connections
                 /\ lastMsg' = lastMsg
      ]_vars

\* A user who is not an admin asked to replace the tags of "a" with ["host"]
\* while the member list was cached and a websocket was connected: the answer
\* is 403, the tag map is the default one, "members_raw" still has its entry
\* and the websocket has received nothing.
C27_Witness ==
    \E p \in Procs : \E w \in Conns :
        /\ pc[p] = "done"
        /\ req[p].kind = "update_tags"
        /\ ~req[p].admin
        /\ req[p].tags = << "host" >>
        /\ req[p].status = 403
        /\ member_tags = DEFAULT_MEMBER_TAGS
        /\ Truthy("members_raw", get_from_cache(cache, "members_raw"))
        /\ connState[w] = "open"
        /\ w \in active_connections["all"]
        /\ lastMsg[w] = NoMsg


\* C28: while the remote call of one request stays unanswered, a request that
\* is running beside it runs to its end, and the first one is the only one
\* left waiting.
C28_HungCallBlocksOnlyItself ==
    (Waiting(Hung) /\ Active(Other)) ~> (Waiting(Hung) /\ pc[Other] = "done")

\* While the POST of a switch has been unanswered, another switch started,
\* posted, re-read, delivered its broadcast and answered 200, a websocket
\* connected, and a read of the front then started and ended.
C28_Witness ==
    /\ pc[Hung] = "post_sent"
    /\ req[Hung].kind = "switch"
    /\ pc[Other] = "done"
    /\ req[Other].kind = "fronters"
    /\ ~req[Other].solo
    /\ req[Other].status = 200
    /\ \E w \in Conns :
          /\ connState[w] = "open"
          /\ lastMsg[w].type = "fronting_update"
    /\ started = 3


\* What get_fronters and get_members return at this moment when both are
\* answered from the cache agrees: a fronter whose id is in the member list is
\* that member's processed record.
CachedAgree ==
    LET f == get_from_cache(cache, "fronters")
        m == get_from_cache(cache, "members")
    IN  (Truthy("fronters", f) /\ Truthy("members", m)) =>
            \A i \in 1..Len(f.value.members) : \A j \in 1..Len(m.value) :
                m.value[j].id = f.value.members[i].id =>
                    /\ f.value.members[i].display_name = m.value[j].display_name
                    /\ f.value.members[i].is_special = m.value[j].is_special

\* C29 (as claimed): after every step, the fronters and the member list the
\* cache answers with agree on every member they share, whenever the two
\* entries were filled; and a get_fronters that fetched returns the fronters
\* in the order of the remote's answer.
C29_FrontersAgreeWithMembers ==
    [][ /\ CachedAgree'
        /\ \A p \in Procs :
              /\ ( /\ pc[p] \in {"gf_resp", "gm_exit"} /\ pc'[p] = "gf_exit"
                   /\ req'[p].kind = "get_fronters"
                   /\ ~req'[p].exc )
                     => FrontIds(req'[p].data) =
                           IF pc[p] = "gf_resp" THEN req[p].resp.front
                           ELSE FrontIds(req[p].data)
              /\ ( /\ pc[p] = "gf_exit" /\ pc'[p] = "done"
                   /\ req'[p].kind = "get_fronters"
                   /\ ~req'[p].raised )
                     => req'[p].data = req[p].data
      ]_vars


\* processed is what the claim says the processed list of raw is.
IsProcessedOf(processed, raw) ==
    /\ Len(processed) = Len(raw)
    /\ \A i \in 1..Len(raw) :
          IF raw[i].name \in {"answer", "system", "sleeping"}
          THEN /\ processed[i].id = raw[i].id
               /\ processed[i].name = raw[i].name
               /\ processed[i].display_name = SPECIAL_DISPLAY_NAMES[raw[i].name]
               /\ processed[i].is_special
               /\ processed[i].original_name = raw[i].name
          ELSE processed[i] = raw[i]

\* The raw list the processing loop of get_members works on in the step that
\* is being taken: the list request p fetched, or the one a starting request
\* found under "members_raw".
RawInHand ==
    IF \E p \in Procs : pc[p] = "gm_exit" /\ pc'[p] # "gm_exit"
    THEN req[CHOOSE p \in Procs : pc[p] = "gm_exit" /\ pc'[p] # "gm_exit"]
             .resp.members
    ELSE cache["members_raw"].value.value

\* C30: whenever get_members stores a processed list under "members", it is
\* the processed list of the raw list it worked on: same length and order,
\* the special names mapped, every other member unchanged; the step leaves
\* the entry under "members_raw" as it was, and a raw list in the cache is
\* always a list as the remote sent it; and what get_members returns is a
\* processed list of a list the remote sent.
C30_ProcessedIsFunctionOfRaw ==
    /\ [][(cache'["members"] # cache["members"] /\ cache'["members"].value.some)
            => /\ RawInHand \in RosterLists
               /\ IsProcessedOf(cache'["members"].value.value, RawInHand)
               /\ cache'["members_raw"] = cache["members_raw"]]_vars
    /\ [](/\ cache["members_raw"].value.some
               => cache["members_raw"].value.value \in RosterLists
          /\ \A p \in Procs :
                (pc[p] = "done" /\ req[p].kind = "get_members" /\ ~req[p].raised)
                => \E raw \in RosterLists : IsProcessedOf(req[p].mlist, raw))

\* get_members returned, for the raw list of Alice and a member named "system"
\* that has a display name of its own, Alice unchanged followed by the member
\* shown as "Unsure".
C30_Witness ==
    \E p \in Procs :
        /\ pc[p] = "done" /\ req[p].kind = "get_members" /\ ~req[p].raised
        /\ cache["members_raw"].value.value = << Alice, Sys >>
        /\ Len(req[p].mlist) = 2
        /\ req[p].mlist[1] = Alice
        /\ req[p].mlist[2].display_name = "Unsure"
        /\ req[p].mlist[2].original_name = "system"
        /\ Sys.display_name = "Sys"

\* The content of member_tags.json, or that there is no such file.
Persisted == [exists |-> tags_file, map |-> member_tags]

\* C31: a call of enrich_members_with_tags, filter_members_by_subsystem or
\* get_members_by_subsystem, from any state of the tag store (member_tags.json
\* not created yet included), leaves the persisted tag map as it was before
\* the call, and the member list it was called on is still the list the
\* caller passed.
C31_TagReadsLeaveStore ==
    [][\A p \in ClientProcs :
          (/\ started' = started + 1
           /\ pc'[p] = "done"
           /\ req'[p].kind \in {"enrich", "filter", "group"})
          => /\ Persisted' = Persisted
             /\ req'[p].input = ProcessMembers(remoteMembers)]_vars

\* The kinds of the tag write paths.
TagWriteKinds == {"update_tags", "add_tag", "remove_tag"}

\* C32: a step of a call of set_front changes no cache entry but "fronters"
\* ("system", "members" and "members_raw" stay as they are), and a step of a
\* tag write path changes no cache entry but "members_raw" ("fronters" and
\* "system" stay as they are).
C32_KeysAreIndependent ==
    [][\A p \in ClientProcs :
          (pc'[p] # pc[p] \/ started' # started)
          => /\ req'[p].kind = "set_front"
                  => \A k \in Keys \ {"fronters"} : cache'[k] = cache[k]
             /\ req'[p].kind \in TagWriteKinds
                  => \A k \in Keys \ {"members_raw"} : cache'[k] = cache[k]]_vars

\* A member list read has filled "members_raw", "members" and "fronters" and
\* "system" is filled; a tag write has then cleared the visible "members_raw"
\* and a set_front has cleared the visible "fronters"; "system" and "members"
\* are still there.
C32_Witness ==
    \E p \in ClientProcs :
        /\ pc[p] = "done"
        /\ req[p].kind = "set_front"
        /\ hist["fronters"].op = "inv" /\ hist["fronters"].vis
        /\ hist["members_raw"].op = "inv" /\ hist["members_raw"].vis
        /\ Truthy("system", get_from_cache(cache, "system"))
        /\ Truthy("members", get_from_cache(cache, "members"))
        /\ ~Truthy("fronters", get_from_cache(cache, "fronters"))
        /\ ~Truthy("members_raw", get_from_cache(cache, "members_raw"))

\* C33: switch requests run concurrently; once every one of them has completed
\* with success and its fronting_update has been delivered to a connection of
\* group "all", the members of the last fronting_update that connection got
\* are the remote's front, whatever the interleaving at the await points.
C33_LastUpdateIsRemoteFront ==
    \A w \in FrontConns :
        (/\ \A p \in Procs :
               /\ pc[p] = "done"
               /\ req[p].kind = "switch"
               /\ req[p].status = 200
               /\ req[p].delivered = {w}
         /\ w \in active_connections["all"]
         /\ connState[w] = "open"
         /\ lastMsg[w].type = "fronting_update")
        => [i \in 1..Len(lastMsg[w].members) |-> lastMsg[w].members[i].id]
               = remoteFront

\* C34: the remote answers the POST of a set-front request with a failure:
\* set_front raises and, once its client is closed, the request ends with an
\* error status; in these steps it broadcasts nothing and delivers nothing
\* and it writes nothing to the cache, so "fronters" is absent as its
\* invalidation left it; and an absent "fronters" entry becomes present only
\* in a step of get_fronters that has fetched the front.
C34_FailedSwitchLeavesFrontersAbsent ==
    [][/\ \A p \in ClientProcs :
             (/\ \/ pc[p] = "post_resp" /\ ~Is2xx(req[p].resp.status)
                 \/ pc[p] = "post_exit" /\ req[p].exc
              /\ pc'[p] # pc[p])
             => /\ pc'[p] = IF pc[p] = "post_resp" THEN "post_exit" ELSE "done"
                /\ pc[p] = "post_resp" => req'[p].exc
                /\ pc[p] = "post_exit" => /\ req'[p].raised
                                          /\ req'[p].status >= 400
                /\ ~Has(req'[p].log, "bcast")
                /\ req'[p].delivered = {}
                /\ lastMsg' = lastMsg
                /\ cache' = cache
                /\ cache'["fronters"] = NoEntry("fronters")
       /\ (/\ cache["fronters"] = NoEntry("fronters")
           /\ cache'["fronters"] # NoEntry("fronters"))
          => \E p \in ClientProcs :
                /\ \/ pc[p] = "gf_resp"
                   \/ pc[p] = "gm_exit" /\ req[p].stage = "gf" /\ ~req[p].exc
                /\ req[p].resp.status = 200
                /\ pc'[p] # pc[p]]_vars

\* A set-front request has failed at its POST while a websocket was connected
\* and after an earlier request had filled "fronters": the entry is absent and
\* the websocket still has the earlier fronting_update.
C34_Witness ==
    \E p \in ClientProcs : \E w \in FrontConns :
        /\ pc[p] = "done"
        /\ req[p].kind \in SetFrontKinds
        /\ Has(req[p].log, "post") /\ ~Has(req[p].log, "post_ok")
        /\ req[p].raised /\ req[p].status = 500
        /\ hist["fronters"].op = "inv" /\ hist["fronters"].vis
        /\ cache["fronters"] = NoEntry("fronters")
        /\ w \in active_connections["all"] /\ connState[w] = "open"
        /\ lastMsg[w].type = "fronting_update"

\* C35: manager.broadcast works on the copy of the group taken when it starts.
\* Every send of a broadcast goes to one connection of the copy that has had no
\* send of this broadcast yet, and changes the last message of no other
\* connection, so a connection that joins the group meanwhile does not get the
\* message; when the broadcast has ended every connection of the copy has had
\* its one send, delivered or failed, whatever connects and disconnects came in
\* between, and the broadcast has not raised.
C35_BroadcastWorksOnSnapshot ==
    [][\A p \in Procs :
          /\ (pc[p] = "bc_send" /\ started' = started /\ req'[p] # req[p])
             => \E conn \in req[p].snapshot :
                   /\ conn \in req[p].remaining
                   /\ req'[p].remaining = req[p].remaining \ {conn}
                   /\ conn \notin req[p].delivered \cup req[p].failed
                   /\ \/ /\ req'[p].delivered = req[p].delivered \cup {conn}
                         /\ req'[p].failed = req[p].failed
                         /\ lastMsg'[conn] = req[p].msg
                      \/ /\ req'[p].failed = req[p].failed \cup {conn}
                         /\ req'[p].delivered = req[p].delivered
                         /\ lastMsg'[conn] = lastMsg[conn]
                   /\ \A w \in Conns \ {conn} : lastMsg'[w] = lastMsg[w]
                   /\ req'[p].snapshot = req[p].snapshot
          /\ (req'[p].kind = "broadcast" /\ pc'[p] = "bc_send")
             => /\ req'[p].remaining # {}
                /\ req'[p].remaining \cup req'[p].delivered \cup req'[p].failed
                      = req'[p].snapshot
          /\ (req'[p].kind = "broadcast" /\ pc'[p] = "done")
             => /\ ~req'[p].raised
                /\ req'[p].remaining = {}
                /\ req'[p].delivered \cup req'[p].failed = req'[p].snapshot
                /\ req'[p].delivered \cap req'[p].failed = {}
          /\ (req'[p].kind = "broadcast" /\ started' # started /\ pc'[p] # pc[p])
             => req'[p].snapshot = active_connections[req'[p].group]]_vars

\* A broadcast to a copy of one connection has ended: that connection left
\* before its send, which failed; another connection joined the group while
\* the broadcast was in progress and has not got the message.
C35_Witness ==
    \E p \in Procs : \E w \in Conns : \E v \in Conns \ {w} :
        /\ pc[p] = "done"
        /\ req[p].kind = "broadcast"
        /\ req[p].snapshot = {w}
        /\ req[p].failed = {w}
        /\ connState[w] = "closed"
        /\ req[p].late = {v}
        /\ connState[v] = "open"
        /\ v \in active_connections[req[p].group]
        /\ lastMsg[v] = NoMsg

\* C36: in the server the group "authenticated" is empty in every state: the
\* handshake of websocket_endpoint registers in "all" and nothing else adds to
\* a group; so broadcast_to_interested_clients takes an empty copy, sends to
\* no connection, and no websocket ever gets a member_update.
C36_AuthenticatedIsEmpty ==
    /\ active_connections["authenticated"] = {}
    /\ \A p \in ClientProcs :
          /\ pc[p] # "bi_send"
          /\ req[p].kind = "interested"
                => /\ pc[p] = "done"
                   /\ req[p].snapshot = {}
                   /\ req[p].delivered = {}
                   /\ req[p].failed = {}
    /\ \A w \in Conns : lastMsg[w].type # "member_update"

\* broadcast_to_interested_clients has been called for member "a" and has
\* returned while a websocket was connected and open: the websocket is in
\* "all" and has not been sent anything.
C36_Witness ==
    \E p \in ClientProcs : \E w \in Conns :
        /\ pc[p] = "done"
        /\ req[p].kind = "interested"
        /\ req[p].ids = << "a" >>
        /\ w \in active_connections["all"]
        /\ connState[w] = "open"
        /\ lastMsg[w] = NoMsg

\* C37: for a connected subscriber, the endpoint turns to sending on a "ping"
\* and on no other text, and the send that follows puts "pong" on that
\* websocket and on no other and changes no group; reading a text, "ping" or
\* another, changes neither the groups nor what any websocket was sent; when
\* the pong cannot be sent, and whenever else the handler of a websocket
\* ends, the websocket is in no group afterwards; outside of requests, only a
\* pong to the websocket that sent "ping" changes what a websocket was sent.
C37_PingPongAndCleanup ==
    [][/\ \A w \in Conns :
             /\ received'[w] # received[w]
                => /\ wsAt[w] = "receive"
                   /\ wsAt'[w] = IF received'[w] = "ping" THEN "send"
                                 ELSE "receive"
                   /\ active_connections' = active_connections
                   /\ connState' = connState
                   /\ lastMsg' = lastMsg
             /\ wsAt'[w] = "send" => received'[w] = "ping"
             /\ (wsAt[w] = "send" /\ wsAt'[w] = "receive")
                => IF connState[w] = "open"
                   THEN /\ lastMsg' = [lastMsg EXCEPT ![w] = Pong]
                        /\ active_connections' = active_connections
                        /\ connState' = connState
                   ELSE /\ \A g \in Groups : w \notin active_connections'[g]
                        /\ connState'[w] = "closed"
                        /\ lastMsg' = lastMsg
             /\ (connState[w] # "closed" /\ connState'[w] = "closed")
                => \A g \in Groups : w \notin active_connections'[g]
             /\ connState'[w] = "closed"
                => \A g \in Groups : w \notin active_connections'[g]
       /\ (pc' = pc /\ req' = req /\ lastMsg' # lastMsg)
          => \E w \in Conns :
                /\ connState[w] = "open"
                /\ received[w] = "ping"
                /\ wsAt[w] = "send"
                /\ lastMsg' = [lastMsg EXCEPT ![w] = Pong]]_vars

\* One websocket has had its ping answered, has then sent another text and is
\* still registered; the other one sent a ping after its transport had died:
\* it was never sent anything and is closed and in no group.
C37_Witness ==
    \E w \in Conns : \E v \in Conns \ {w} :
        /\ lastMsg[w] = Pong
        /\ received[w] \in OtherTexts
        /\ connState[w] = "open"
        /\ w \in active_connections["all"]
        /\ received[v] = "ping"
        /\ lastMsg[v] = NoMsg
        /\ connState[v] = "closed"
        /\ \A g \in Groups : v \notin active_connections[g]

\* C38: when every remote call is answered and every send returns or fails,
\* every switch request that has started ends with a response, a success or
\* an error status, and with it every broadcast ends; a broadcast has made at
\* most as many send attempts as its group had connections when it started,
\* each to a different one; a request sends at most one POST and one GET of
\* the front, and after a failure it only closes its clients and ends.
C38_SwitchAndBroadcastTerminate ==
    /\ \A p \in ClientProcs : Active(p) ~> pc[p] = "done"
    /\ [](\A p \in ClientProcs :
             /\ pc[p] = "done" => req[p].status \in {200, 400, 500}
             /\ Cardinality(req[p].delivered \cup req[p].failed)
                   + Cardinality(req[p].remaining)
                   = Cardinality(req[p].snapshot)
             /\ req[p].delivered \cap req[p].failed = {}
             /\ Occurrences(req[p].log, "post") <= 1
             /\ Occurrences(req[p].log, "get") <= 1
             /\ Occurrences(req[p].log, "bcast") <= 1
             /\ Has(req[p].log, "err")
                   => /\ req[p].log[Len(req[p].log)] = "err"
                      /\ \/ pc[p] = "done" /\ req[p].status = 500
                         \/ /\ pc[p] \in {"post_exit", "gf_exit", "gm_exit"}
                            /\ req[p].exc)

\* A switch request has ended with success after a broadcast to a copy of two
\* connections: two send attempts, one delivered and one failed.
C38_Witness ==
    \E p \in ClientProcs :
        /\ pc[p] = "done"
        /\ req[p].kind = "switch"
        /\ req[p].status = 200
        /\ Cardinality(req[p].snapshot) = 2
        /\ Cardinality(req[p].delivered) = 1
        /\ Cardinality(req[p].failed) = 1

====
